---- MODULE Spec2Model ----
(***************************************************************************)
(* Model of the line-assembly pipeline of                                  *)
(* src/Olds/Exportador_contagem_Ver2.0.py (ExportadorTXTApp): value        *)
(* normalisation, EAN-13 canonicalisation, the attribute block, the line   *)
(* builder, the preview / export passes and the rejection log.             *)
(*                                                                         *)
(* A Python str is a sequence of one-character strings.  A DataFrame is a  *)
(* record [columns, data]: the column names and, per row, the cell values  *)
(* by position.  A cell value is a record [k, w, f] (see the constructors  *)
(* below), so that None, NaN, floats and text stay distinct until          *)
(* smart_str converts them.                                                *)
(***************************************************************************)
EXTENDS Integers, Sequences, FiniteSets, TLC

(***************************************************************************)
(* Characters and text helpers (Python str methods used by the program).   *)
(***************************************************************************)
TAB == "\t"
LF == "\n"
CR == "\r"
SP == " "

\* The one character U+00B2, superscript two: a digit for str.isdigit(),
\* not a decimal digit.
SUP2 == "^2"

\* str.isdigit() on the characters the model uses.
IsDigit(ch) == ch \in {"0", "1", "2", "3", "4", "5", "6", "7", "8", "9", SUP2}

\* The characters str.strip() removes (Python whitespace).
IsSpace(ch) == ch \in {SP, TAB, LF, CR}

\* The line boundaries str.splitlines() splits on.
IsLineBreak(ch) == ch \in {LF, CR}

RECURSIVE LStrip(_)
LStrip(s) == IF s # <<>> /\ IsSpace(Head(s)) THEN LStrip(Tail(s)) ELSE s

RECURSIVE RStrip(_)
RStrip(s) ==
  IF s # <<>> /\ IsSpace(s[Len(s)]) THEN RStrip(SubSeq(s, 1, Len(s) - 1)) ELSE s

\* str.strip()
Strip(s) == RStrip(LStrip(s))

\* "".join(ch for ch in s if ch.isdigit())
DigitsOf(s) == SelectSeq(s, IsDigit)

\* str.rjust(width, fill)
RECURSIVE RJust(_, _, _)
RJust(s, width, fill) ==
  IF Len(s) >= width THEN s ELSE RJust(<<fill>> \o s, width, fill)

\* sep.join(parts)
RECURSIVE Join(_, _)
Join(parts, sep) ==
  IF parts = <<>> THEN <<>>
  ELSE IF Len(parts) = 1 THEN parts[1]
  ELSE parts[1] \o sep \o Join(Tail(parts), sep)

\* str.splitlines(): CR LF counts as one boundary, and a final boundary adds
\* no empty last element.
RECURSIVE SplitLinesFrom(_, _, _)
SplitLinesFrom(s, cur, acc) ==
  IF s = <<>> THEN (IF cur = <<>> THEN acc ELSE Append(acc, cur))
  ELSE IF Head(s) = CR /\ Len(s) >= 2 /\ s[2] = LF
    THEN SplitLinesFrom(Tail(Tail(s)), <<>>, Append(acc, cur))
  ELSE IF IsLineBreak(Head(s))
    THEN SplitLinesFrom(Tail(s), <<>>, Append(acc, cur))
  ELSE SplitLinesFrom(Tail(s), Append(cur, Head(s)), acc)

SplitLines(s) == SplitLinesFrom(s, <<>>, <<>>)

\* str(n) for a natural number n
DigitChar(d) == <<"0", "1", "2", "3", "4", "5", "6", "7", "8", "9">>[d + 1]

RECURSIVE NatToStr(_)
NatToStr(n) ==
  IF n < 10 THEN <<DigitChar(n)>> ELSE Append(NatToStr(n \div 10), DigitChar(n % 10))

(***************************************************************************)
(* Cell values.                                                            *)
(***************************************************************************)
NoneV == [k |-> "none", w |-> <<>>, f |-> <<>>]
NaNV == [k |-> "nan", w |-> <<>>, f |-> <<>>]
\* a float whose repr is w "." f ; it is integral when every digit of f is 0
FloatV(w, f) == [k |-> "float", w |-> w, f |-> f]
StrV(s) == [k |-> "str", w |-> s, f |-> <<>>]
\* an int whose str is w
IntV(w) == [k |-> "int", w |-> w, f |-> <<>>]

IsInteger(x) == \A i \in 1..Len(x.f) : x.f[i] = "0"

\* str(x)
PyStr(x) ==
  CASE x.k = "none" -> <<"N", "o", "n", "e">>
    [] x.k = "nan" -> <<"n", "a", "n">>
    [] x.k = "float" -> x.w \o <<".">> \o x.f
    [] OTHER -> x.w

\* variant: a float always keeps its fraction
smart_str_keep_fraction(x) ==
  IF x.k = "none" THEN <<>>
  ELSE IF x.k = "nan" THEN <<>>
  ELSE Strip(PyStr(x))

\* variant: one whitespace character is removed at each end
smart_str_strip_one(x) ==
  LET CutHead(s) == IF s # <<>> /\ IsSpace(Head(s)) THEN Tail(s) ELSE s
      CutLast(s) == IF s # <<>> /\ IsSpace(s[Len(s)]) THEN SubSeq(s, 1, Len(s) - 1) ELSE s
  IN IF x.k = "none" THEN <<>>
     ELSE IF x.k = "nan" THEN <<>>
     ELSE IF x.k = "float" /\ IsInteger(x) THEN x.w
     ELSE CutLast(CutHead(PyStr(x)))

smart_str(x) ==
  IF x.k = "none" THEN <<>>
  ELSE IF x.k = "nan" THEN <<>>
  ELSE IF x.k = "float" /\ IsInteger(x) THEN x.w
  ELSE Strip(PyStr(x))

one_line(text) == Join(SplitLines(text), <<SP>>)

\* str.upper() on the letters the model uses
LowerCase ==
  <<"a", "b", "c", "d", "e", "f", "g", "h", "i", "j", "k", "l", "m",
    "n", "o", "p", "q", "r", "s", "t", "u", "v", "w", "x", "y", "z">>

UpperCase ==
  <<"A", "B", "C", "D", "E", "F", "G", "H", "I", "J", "K", "L", "M",
    "N", "O", "P", "Q", "R", "S", "T", "U", "V", "W", "X", "Y", "Z">>

UpperCh(ch) ==
  IF \E i \in 1..Len(LowerCase) : LowerCase[i] = ch
  THEN UpperCase[CHOOSE i \in 1..Len(LowerCase) : LowerCase[i] = ch]
  ELSE ch

Upper(s) == [i \in 1..Len(s) |-> UpperCh(s[i])]

\* str.replace(a, b) for single characters
ReplaceCh(s, a, b) == [i \in 1..Len(s) |-> IF s[i] = a THEN b ELSE s[i]]

\* str.split(sep) for a single-character separator
RECURSIVE SplitFrom(_, _, _, _)
SplitFrom(s, sep, cur, acc) ==
  IF s = <<>> THEN Append(acc, cur)
  ELSE IF Head(s) = sep THEN SplitFrom(Tail(s), sep, <<>>, Append(acc, cur))
  ELSE SplitFrom(Tail(s), sep, Append(cur, Head(s)), acc)

Split(s, sep) == SplitFrom(s, sep, <<>>, <<>>)

\* x in list
Contains(seq, x) == \E i \in 1..Len(seq) : seq[i] = x

Range(seq) == {seq[i] : i \in 1..Len(seq)}

\* Insertion-ordered dict {col: val}: a sequence of [col, val] entries.
HasKey(d, c) == \E i \in 1..Len(d) : d[i].col = c

Get(d, c) == d[CHOOSE i \in 1..Len(d) : d[i].col = c].val

Put(d, c, v) ==
  IF HasKey(d, c)
  THEN [i \in 1..Len(d) |-> IF d[i].col = c THEN [col |-> c, val |-> v] ELSE d[i]]
  ELSE Append(d, [col |-> c, val |-> v])

Keys(d) == [i \in 1..Len(d) |-> d[i].col]

(***************************************************************************)
(* Program constants and literals.                                         *)
(***************************************************************************)
\* the canonical barcode width
EAN_LEN == 13

\* rows shown by a preview: df.head(10)
HEAD_ROWS == 10

\* os.linesep
NL == <<LF>>

COD_INTERNO == <<"C", "O", "D", "_", "I", "N", "T", "E", "R", "N", "O">>
COD_EAN == <<"C", "O", "D", "_", "E", "A", "N">>
DES_PRODUTO == <<"D", "E", "S", "_", "P", "R", "O", "D", "U", "T", "O">>

\* "Pré-visualização"
CTX_PREVIEW ==
  <<"P", "r", "é", "-", "v", "i", "s", "u", "a", "l", "i", "z", "a", "ç", "ã", "o">>

\* "Exportação"
CTX_EXPORT == <<"E", "x", "p", "o", "r", "t", "a", "ç", "ã", "o">>

\* " - Itens com EAN > 13 dígitos: "
LOG_TITLE ==
  <<" ", "-", " ", "I", "t", "e", "n", "s", " ", "c", "o", "m", " ", "E", "A", "N",
    " ", ">", " ", "1", "3", " ", "d", "í", "g", "i", "t", "o", "s", ":", " ">>

\* "COD_INTERNO<TAB>COD_EAN<TAB>DES_PRODUTO<TAB>LEN"
LOG_COLUMNS ==
  COD_INTERNO \o <<TAB>> \o COD_EAN \o <<TAB>> \o DES_PRODUTO \o <<TAB, "L", "E", "N">>

\* self.df before any load
NoDf == [columns |-> <<>>, data |-> <<>>, loaded |-> FALSE]

\* a loaded DataFrame
DataFrame(columns, data) == [columns |-> columns, data |-> data, loaded |-> TRUE]

\* one row of a DataFrame (a pandas Series indexed by the column names)
Row(d, i) == [columns |-> d.columns, vals |-> d.data[i]]

\* row.get(col, default)
RowGet(row, col, default) ==
  IF Contains(row.columns, col)
  THEN row.vals[CHOOSE i \in 1..Len(row.columns) : row.columns[i] = col]
  ELSE default

\* variant: the whole frame
DfHead_all(d, n) == d

\* df.head(n)
DfHead(d, n) ==
  IF Len(d.data) <= n THEN d ELSE [d EXCEPT !.data = SubSeq(d.data, 1, n)]

(***************************************************************************)
(* Module-level functions.                                                 *)
(***************************************************************************)
parse_mandatory_prefix(value) ==
  LET parts == Split(value, ",")
      clean == [i \in 1..Len(parts) |-> Upper(Strip(parts[i]))]
  IN SelectSeq(clean, LAMBDA p : p # <<>>)

\* variant: the segment is cut to three characters
abbrev_label_three(colname) ==
  IF colname = <<>> THEN <<"V", "A", "L">>
  ELSE LET seg0 == Split(ReplaceCh(ReplaceCh(colname, "-", "_"), SP, "_"), "_")[1]
           seg == Upper(Strip(seg0))
       IN IF Len(seg) <= 3 THEN seg ELSE SubSeq(seg, 1, 3)

abbrev_label(colname) ==
  IF colname = <<>> THEN <<"V", "A", "L">>
  ELSE LET seg0 == Split(ReplaceCh(ReplaceCh(colname, "-", "_"), SP, "_"), "_")[1]
           seg == Upper(Strip(seg0))
       IN IF Len(seg) <= 4 THEN seg ELSE SubSeq(seg, 1, 4)

(***************************************************************************)
(* ExportadorTXTApp.  A method is an operator from the object (a record s  *)
(* of its fields, the two module globals BASE_COL and MANDATORY_PREFIX,    *)
(* the two files it writes and the record of what the running handler has  *)
(* shown and called) to the object after the call.                         *)
(***************************************************************************)
\* messagebox.show*: the handler's dialogs, in order
ShowMessage(s, tag) == [s EXCEPT !.msgs = Append(@, tag)]

\* df.columns = [c.strip().upper() for c in df.columns]
NormalizeColumns(d) ==
  [d EXCEPT !.columns = [i \in 1..Len(d.columns) |-> Upper(Strip(d.columns[i]))]]

\* variant: a value of exactly thirteen digits is refused
_ean13_fix_and_validate_ge(value) ==
  LET Fix(digits) ==
        IF Len(digits) >= EAN_LEN
        THEN [ok |-> FALSE, ean |-> <<>>]
        ELSE [ok |-> TRUE, ean |-> RJust(digits, EAN_LEN, "0")]
  IN Fix(DigitsOf(smart_str(value)))

_ean13_fix_and_validate(value) ==
  LET Fix(digits) ==
        IF Len(digits) > EAN_LEN
        THEN [ok |-> FALSE, ean |-> <<>>]
        ELSE [ok |-> TRUE, ean |-> RJust(digits, EAN_LEN, "0")]
  IN Fix(DigitsOf(smart_str(value)))

\* one record line of the log
LogRecordLine(rec) ==
  rec.COD_IN \o <<TAB>> \o rec.COD_EAN \o <<TAB>> \o one_line(rec.DES_PRODUTO)
    \o <<TAB>> \o NatToStr(rec.LEN) \o NL

RECURSIVE LogRecordLines(_)
LogRecordLines(recs) ==
  IF recs = <<>> THEN <<>> ELSE LogRecordLine(Head(recs)) \o LogRecordLines(Tail(recs))

\* variant: the records are written by a loop that stops after the first
_write_ean13_log_first(s, context, now, log_ok) ==
  IF s.ean13_oversized = <<>> THEN s
  ELSE IF ~log_ok THEN [s EXCEPT !.flush = "failed"]
  ELSE [s EXCEPT
          !.flush = "written",
          !.log_file = @ \o <<"[">> \o now \o <<"]", " ">> \o context \o LOG_TITLE
                         \o NatToStr(Len(s.ean13_oversized)) \o NL
                         \o LOG_COLUMNS \o NL
                         \o LogRecordLine(Head(s.ean13_oversized))
                         \o NL]

\* variant: the log is opened with mode "w"
_write_ean13_log_truncate(s, context, now, log_ok) ==
  IF s.ean13_oversized = <<>> THEN s
  ELSE IF ~log_ok THEN [s EXCEPT !.flush = "failed"]
  ELSE [s EXCEPT
          !.flush = "written",
          !.log_file = <<"[">> \o now \o <<"]", " ">> \o context \o LOG_TITLE
                         \o NatToStr(Len(s.ean13_oversized)) \o NL
                         \o LOG_COLUMNS \o NL
                         \o LogRecordLines(s.ean13_oversized)
                         \o NL]

\* variant: no try / except around the writes
_write_ean13_log_raise(s, context, now, log_ok) ==
  IF s.ean13_oversized = <<>> THEN s
  ELSE IF ~log_ok THEN [s EXCEPT !.flush = "failed", !.raised = TRUE]
  ELSE [s EXCEPT
          !.flush = "written",
          !.log_file = @ \o <<"[">> \o now \o <<"]", " ">> \o context \o LOG_TITLE
                         \o NatToStr(Len(s.ean13_oversized)) \o NL
                         \o LOG_COLUMNS \o NL
                         \o LogRecordLines(s.ean13_oversized)
                         \o NL]

\* now is datetime.now().strftime(...); log_ok is whether open(log_path, "a")
\* and the writes succeed
_write_ean13_log(s, context, now, log_ok) ==
  IF s.ean13_oversized = <<>> THEN s
  ELSE IF ~log_ok THEN [s EXCEPT !.flush = "failed"]  \* except Exception: pass
  ELSE [s EXCEPT
          !.flush = "written",
          !.log_file = @ \o <<"[">> \o now \o <<"]", " ">> \o context \o LOG_TITLE
                         \o NatToStr(Len(s.ean13_oversized)) \o NL
                         \o LOG_COLUMNS \o NL
                         \o LogRecordLines(s.ean13_oversized)
                         \o NL]

\* variant: a column takes the label of the entry that was at its position
RECURSIVE RebuildColumns_by_position(_, _, _, _)
RebuildColumns_by_position(s, cols_all, prev_selected, prev_labels) ==
  IF cols_all = <<>> THEN s
  ELSE RebuildColumns_by_position(
         [s EXCEPT
            !.col_vars = Put(@, Head(cols_all), Head(cols_all) \in prev_selected),
            !.label_vars = Put(@, Head(cols_all),
                               IF Len(s.label_vars) < Len(prev_labels)
                               THEN prev_labels[Len(s.label_vars) + 1].val
                               ELSE abbrev_label(Head(cols_all)))],
         Tail(cols_all), prev_selected, prev_labels)

\* the loop over cols_all that fills col_vars and label_vars
RECURSIVE RebuildColumns(_, _, _, _)
RebuildColumns(s, cols_all, prev_selected, prev_labels) ==
  IF cols_all = <<>> THEN s
  ELSE RebuildColumns(
         [s EXCEPT
            !.col_vars = Put(@, Head(cols_all), Head(cols_all) \in prev_selected),
            !.label_vars = Put(@, Head(cols_all),
                               IF HasKey(prev_labels, Head(cols_all))
                               THEN Get(prev_labels, Head(cols_all))
                               ELSE abbrev_label(Head(cols_all)))],
         Tail(cols_all), prev_selected, prev_labels)

\* variant: self.label_vars is not cleared
_populate_columns_ui_stale_labels(s) ==
  LET prev_selected ==
        {s.col_vars[i].col : i \in {j \in 1..Len(s.col_vars) : s.col_vars[j].val}}
      prev_labels == s.label_vars
      cleared == [s EXCEPT !.col_vars = <<>>]
      Populate(cols) ==
        IF ~Contains(cols, s.BASE_COL)
        THEN ShowMessage(cleared, "Coluna base ausente")
        ELSE RebuildColumns(
               IF \E c \in {COD_INTERNO, COD_EAN} : ~Contains(cols, c)
               THEN ShowMessage(cleared, "Aviso")
               ELSE cleared,
               SelectSeq(cols,
                         LAMBDA c : c \notin {s.BASE_COL} \cup Range(s.MANDATORY_PREFIX)),
               prev_selected, prev_labels)
  IN IF ~s.df.loaded THEN cleared ELSE Populate(NormalizeColumns(s.df).columns)

\* variant: the list is left as it was when the base column is missing
_populate_columns_ui_restore(s) ==
  LET prev_selected ==
        {s.col_vars[i].col : i \in {j \in 1..Len(s.col_vars) : s.col_vars[j].val}}
      prev_labels == s.label_vars
      cleared == [s EXCEPT !.col_vars = <<>>, !.label_vars = <<>>]
      Populate(cols) ==
        IF ~Contains(cols, s.BASE_COL)
        THEN ShowMessage(s, "Coluna base ausente")
        ELSE RebuildColumns(
               IF \E c \in {COD_INTERNO, COD_EAN} : ~Contains(cols, c)
               THEN ShowMessage(cleared, "Aviso")
               ELSE cleared,
               SelectSeq(cols,
                         LAMBDA c : c \notin {s.BASE_COL} \cup Range(s.MANDATORY_PREFIX)),
               prev_selected, prev_labels)
  IN IF ~s.df.loaded THEN cleared ELSE Populate(NormalizeColumns(s.df).columns)

_populate_columns_ui(s) ==
  LET prev_selected ==
        {s.col_vars[i].col : i \in {j \in 1..Len(s.col_vars) : s.col_vars[j].val}}
      prev_labels == s.label_vars
      cleared == [s EXCEPT !.col_vars = <<>>, !.label_vars = <<>>]
      Populate(cols) ==
        IF ~Contains(cols, s.BASE_COL)
        THEN ShowMessage(cleared, "Coluna base ausente")
        ELSE RebuildColumns(
               IF \E c \in {COD_INTERNO, COD_EAN} : ~Contains(cols, c)
               THEN ShowMessage(cleared, "Aviso")
               ELSE cleared,
               SelectSeq(cols,
                         LAMBDA c : c \notin {s.BASE_COL} \cup Range(s.MANDATORY_PREFIX)),
               prev_selected, prev_labels)
  IN IF ~s.df.loaded THEN cleared ELSE Populate(NormalizeColumns(s.df).columns)

\* variant: the label separator is written under an empty label too
RECURSIVE ExtraParts_sep_always(_, _, _)
ExtraParts_sep_always(s, row, i) ==
  LET Part(label, val, rest) ==
        IF s.col_vars[i].val /\ val # <<>>
        THEN <<label \o s.label_sep_var \o val>> \o rest
        ELSE rest
  IN IF i > Len(s.col_vars) THEN <<>>
     ELSE Part(Strip(Get(s.label_vars, s.col_vars[i].col)),
               smart_str(RowGet(row, s.col_vars[i].col, StrV(<<>>))),
               ExtraParts_sep_always(s, row, i + 1))

\* variant: a ticked column with an empty value still gives a part
RECURSIVE ExtraParts_keep_empty(_, _, _)
ExtraParts_keep_empty(s, row, i) ==
  LET Part(label, val, rest) ==
        IF s.col_vars[i].val
        THEN <<IF label # <<>> THEN label \o s.label_sep_var \o val ELSE val>> \o rest
        ELSE rest
  IN IF i > Len(s.col_vars) THEN <<>>
     ELSE Part(Strip(Get(s.label_vars, s.col_vars[i].col)),
               smart_str(RowGet(row, s.col_vars[i].col, StrV(<<>>))),
               ExtraParts_keep_empty(s, row, i + 1))

\* the loop over self.col_vars.items() that collects the parts
RECURSIVE ExtraParts(_, _, _)
ExtraParts(s, row, i) ==
  LET Part(label, val, rest) ==
        IF s.col_vars[i].val /\ val # <<>>
        THEN <<IF label # <<>> THEN label \o s.label_sep_var \o val ELSE val>> \o rest
        ELSE rest
  IN IF i > Len(s.col_vars) THEN <<>>
     ELSE Part(Strip(Get(s.label_vars, s.col_vars[i].col)),
               smart_str(RowGet(row, s.col_vars[i].col, StrV(<<>>))),
               ExtraParts(s, row, i + 1))

\* variant: opening and closing are written around no part too
_build_extra_block_always(s, row) ==
  LET Block(parts) == s.opening_var \o Join(parts, s.pair_sep_var) \o s.closing_var
  IN Block(ExtraParts(s, row, 1))

_build_extra_block(s, row) ==
  LET Block(parts) ==
        IF parts # <<>>
        THEN s.opening_var \o Join(parts, s.pair_sep_var) \o s.closing_var
        ELSE <<>>
  IN Block(ExtraParts(s, row, 1))

\* variant: the description is base_text, a space and the block as they are
_build_line_no_strip(s, row) ==
  LET Line(cod_interno, raw_ean, fixed, base_text, extra) ==
        IF s.validate_ean13 /\ ~fixed.ok
        THEN [ret |-> [some |-> FALSE, line |-> <<>>],
              ean13 |-> [called |-> TRUE, ok |-> fixed.ok, ean |-> fixed.ean],
              desc |-> [built |-> FALSE, base_text |-> <<>>, extra |-> <<>>,
                        desc_final |-> <<>>],
              self |-> [s EXCEPT !.ean13_oversized =
                          Append(@, [COD_IN |-> cod_interno,
                                     COD_EAN |-> raw_ean,
                                     DES_PRODUTO |-> base_text,
                                     LEN |-> Len(DigitsOf(raw_ean))])]]
        ELSE [ret |-> [some |-> TRUE,
                       line |-> cod_interno \o <<"|">>
                                  \o (IF s.validate_ean13 THEN fixed.ean ELSE raw_ean)
                                  \o <<"|">>
                                  \o (IF extra # <<>>
                                      THEN base_text \o <<SP>> \o extra
                                      ELSE base_text)],
              ean13 |-> IF s.validate_ean13
                        THEN [called |-> TRUE, ok |-> fixed.ok, ean |-> fixed.ean]
                        ELSE [called |-> FALSE, ok |-> FALSE, ean |-> <<>>],
              desc |-> [built |-> TRUE, base_text |-> base_text, extra |-> extra,
                        desc_final |-> IF extra # <<>>
                                       THEN base_text \o <<SP>> \o extra
                                       ELSE base_text],
              self |-> s]
  IN Line(smart_str(RowGet(row, COD_INTERNO, StrV(<<>>))),
          smart_str(RowGet(row, COD_EAN, StrV(<<>>))),
          _ean13_fix_and_validate(RowGet(row, COD_EAN, StrV(<<>>))),
          smart_str(RowGet(row, s.BASE_COL, StrV(<<>>))),
          _build_extra_block(s, row))

\* variant: the record's LEN is the length of the barcode text
_build_line_len_text(s, row) ==
  LET Line(cod_interno, raw_ean, fixed, base_text, extra) ==
        IF s.validate_ean13 /\ ~fixed.ok
        THEN [ret |-> [some |-> FALSE, line |-> <<>>],
              ean13 |-> [called |-> TRUE, ok |-> fixed.ok, ean |-> fixed.ean],
              desc |-> [built |-> FALSE, base_text |-> <<>>, extra |-> <<>>,
                        desc_final |-> <<>>],
              self |-> [s EXCEPT !.ean13_oversized =
                          Append(@, [COD_IN |-> cod_interno,
                                     COD_EAN |-> raw_ean,
                                     DES_PRODUTO |-> base_text,
                                     LEN |-> Len(raw_ean)])]]
        ELSE [ret |-> [some |-> TRUE,
                       line |-> cod_interno \o <<"|">>
                                  \o (IF s.validate_ean13 THEN fixed.ean ELSE raw_ean)
                                  \o <<"|">>
                                  \o (IF extra # <<>>
                                      THEN Strip(base_text \o <<SP>> \o extra)
                                      ELSE base_text)],
              ean13 |-> IF s.validate_ean13
                        THEN [called |-> TRUE, ok |-> fixed.ok, ean |-> fixed.ean]
                        ELSE [called |-> FALSE, ok |-> FALSE, ean |-> <<>>],
              desc |-> [built |-> TRUE, base_text |-> base_text, extra |-> extra,
                        desc_final |-> IF extra # <<>>
                                       THEN Strip(base_text \o <<SP>> \o extra)
                                       ELSE base_text],
              self |-> s]
  IN Line(smart_str(RowGet(row, COD_INTERNO, StrV(<<>>))),
          smart_str(RowGet(row, COD_EAN, StrV(<<>>))),
          _ean13_fix_and_validate(RowGet(row, COD_EAN, StrV(<<>>))),
          smart_str(RowGet(row, s.BASE_COL, StrV(<<>>))),
          _build_extra_block(s, row))

\* variant: the digit count of a record adds the records collected before it
_build_line_len_seen(s, row) ==
  LET Line(cod_interno, raw_ean, fixed, base_text, extra) ==
        IF s.validate_ean13 /\ ~fixed.ok
        THEN [ret |-> [some |-> FALSE, line |-> <<>>],
              ean13 |-> [called |-> TRUE, ok |-> fixed.ok, ean |-> fixed.ean],
              desc |-> [built |-> FALSE, base_text |-> <<>>, extra |-> <<>>,
                        desc_final |-> <<>>],
              self |-> [s EXCEPT !.ean13_oversized =
                          Append(@, [COD_IN |-> cod_interno,
                                     COD_EAN |-> raw_ean,
                                     DES_PRODUTO |-> base_text,
                                     LEN |-> Len(DigitsOf(raw_ean)) + Len(s.ean13_oversized)])]]
        ELSE [ret |-> [some |-> TRUE,
                       line |-> cod_interno \o <<"|">>
                                  \o (IF s.validate_ean13 THEN fixed.ean ELSE raw_ean)
                                  \o <<"|">>
                                  \o (IF extra # <<>>
                                      THEN Strip(base_text \o <<SP>> \o extra)
                                      ELSE base_text)],
              ean13 |-> IF s.validate_ean13
                        THEN [called |-> TRUE, ok |-> fixed.ok, ean |-> fixed.ean]
                        ELSE [called |-> FALSE, ok |-> FALSE, ean |-> <<>>],
              desc |-> [built |-> TRUE, base_text |-> base_text, extra |-> extra,
                        desc_final |-> IF extra # <<>>
                                       THEN Strip(base_text \o <<SP>> \o extra)
                                       ELSE base_text],
              self |-> s]
  IN Line(smart_str(RowGet(row, COD_INTERNO, StrV(<<>>))),
          smart_str(RowGet(row, COD_EAN, StrV(<<>>))),
          _ean13_fix_and_validate(RowGet(row, COD_EAN, StrV(<<>>))),
          smart_str(RowGet(row, s.BASE_COL, StrV(<<>>))),
          _build_extra_block(s, row))

\* variant: the barcode is fixed and validated whatever the checkbox says
_build_line_always_fix(s, row) ==
  LET Line(cod_interno, raw_ean, fixed, base_text, extra) ==
        IF TRUE /\ ~fixed.ok
        THEN [ret |-> [some |-> FALSE, line |-> <<>>],
              ean13 |-> [called |-> TRUE, ok |-> fixed.ok, ean |-> fixed.ean],
              desc |-> [built |-> FALSE, base_text |-> <<>>, extra |-> <<>>,
                        desc_final |-> <<>>],
              self |-> [s EXCEPT !.ean13_oversized =
                          Append(@, [COD_IN |-> cod_interno,
                                     COD_EAN |-> raw_ean,
                                     DES_PRODUTO |-> base_text,
                                     LEN |-> Len(DigitsOf(raw_ean))])]]
        ELSE [ret |-> [some |-> TRUE,
                       line |-> cod_interno \o <<"|">>
                                  \o (IF TRUE THEN fixed.ean ELSE raw_ean)
                                  \o <<"|">>
                                  \o (IF extra # <<>>
                                      THEN Strip(base_text \o <<SP>> \o extra)
                                      ELSE base_text)],
              ean13 |-> IF TRUE
                        THEN [called |-> TRUE, ok |-> fixed.ok, ean |-> fixed.ean]
                        ELSE [called |-> FALSE, ok |-> FALSE, ean |-> <<>>],
              desc |-> [built |-> TRUE, base_text |-> base_text, extra |-> extra,
                        desc_final |-> IF extra # <<>>
                                       THEN Strip(base_text \o <<SP>> \o extra)
                                       ELSE base_text],
              self |-> s]
  IN Line(smart_str(RowGet(row, COD_INTERNO, StrV(<<>>))),
          smart_str(RowGet(row, COD_EAN, StrV(<<>>))),
          _ean13_fix_and_validate(RowGet(row, COD_EAN, StrV(<<>>))),
          smart_str(RowGet(row, s.BASE_COL, StrV(<<>>))),
          _build_extra_block(s, row))

\* The result of a call: ret is the returned line (some = FALSE for None),
\* ean13 is what the call to _ean13_fix_and_validate returned, when it was
\* made, desc holds the locals base_text, extra and desc_final, when they
\* were built, and self is the object after the call.
_build_line(s, row) ==
  LET Line(cod_interno, raw_ean, fixed, base_text, extra) ==
        IF s.validate_ean13 /\ ~fixed.ok
        THEN [ret |-> [some |-> FALSE, line |-> <<>>],
              ean13 |-> [called |-> TRUE, ok |-> fixed.ok, ean |-> fixed.ean],
              desc |-> [built |-> FALSE, base_text |-> <<>>, extra |-> <<>>,
                        desc_final |-> <<>>],
              self |-> [s EXCEPT !.ean13_oversized =
                          Append(@, [COD_IN |-> cod_interno,
                                     COD_EAN |-> raw_ean,
                                     DES_PRODUTO |-> base_text,
                                     LEN |-> Len(DigitsOf(raw_ean))])]]
        ELSE [ret |-> [some |-> TRUE,
                       line |-> cod_interno \o <<"|">>
                                  \o (IF s.validate_ean13 THEN fixed.ean ELSE raw_ean)
                                  \o <<"|">>
                                  \o (IF extra # <<>>
                                      THEN Strip(base_text \o <<SP>> \o extra)
                                      ELSE base_text)],
              ean13 |-> IF s.validate_ean13
                        THEN [called |-> TRUE, ok |-> fixed.ok, ean |-> fixed.ean]
                        ELSE [called |-> FALSE, ok |-> FALSE, ean |-> <<>>],
              desc |-> [built |-> TRUE, base_text |-> base_text, extra |-> extra,
                        desc_final |-> IF extra # <<>>
                                       THEN Strip(base_text \o <<SP>> \o extra)
                                       ELSE base_text],
              self |-> s]
  IN Line(smart_str(RowGet(row, COD_INTERNO, StrV(<<>>))),
          smart_str(RowGet(row, COD_EAN, StrV(<<>>))),
          _ean13_fix_and_validate(RowGet(row, COD_EAN, StrV(<<>>))),
          smart_str(RowGet(row, s.BASE_COL, StrV(<<>>))),
          _build_extra_block(s, row))

\* variant: the loop ends at the first row _build_line refuses
RECURSIVE IterRows_stop(_, _, _)
IterRows_stop(s, d, i) ==
  LET Collect(r) ==
        [r.self EXCEPT
           !.calls = Append(@, [ret |-> r.ret, ean13 |-> r.ean13, desc |-> r.desc,
                                added |-> SubSeq(r.self.ean13_oversized,
                                                 Len(s.ean13_oversized) + 1,
                                                 Len(r.self.ean13_oversized))]),
           !.lines = IF r.ret.some THEN Append(@, r.ret.line) ELSE @]
      Go(r) == IF r.ret.some THEN IterRows_stop(Collect(r), d, i + 1) ELSE Collect(r)
  IN IF i > Len(d.data) THEN s
     ELSE Go(_build_line(s, Row(d, i)))

\* for _, row in d.iterrows(): line = self._build_line(row); if line is not
\* None: <collect line>.  The lines collected are returned in s.lines and every
\* call is recorded in s.calls.
RECURSIVE IterRows(_, _, _)
IterRows(s, d, i) ==
  LET Collect(r) ==
        [r.self EXCEPT
           !.calls = Append(@, [ret |-> r.ret, ean13 |-> r.ean13, desc |-> r.desc,
                                added |-> SubSeq(r.self.ean13_oversized,
                                                 Len(s.ean13_oversized) + 1,
                                                 Len(r.self.ean13_oversized))]),
           !.lines = IF r.ret.some THEN Append(@, r.ret.line) ELSE @]
  IN IF i > Len(d.data) THEN s
     ELSE IterRows(Collect(_build_line(s, Row(d, i))), d, i + 1)

\* f.write(line + NL) for every collected line
RECURSIVE FileText(_)
FileText(lines) ==
  IF lines = <<>> THEN <<>> ELSE Head(lines) \o NL \o FileText(Tail(lines))

\* variant: the collection is not emptied before the loop
on_preview_keep(s, now, log_ok) ==
  LET Warn(logged) ==
        IF logged.raised THEN logged ELSE ShowMessage(logged, "EAN > 13 dígitos")
      Show(done) ==
        IF done.validate_ean13 /\ done.ean13_oversized # <<>>
        THEN Warn(_write_ean13_log([done EXCEPT !.preview_txt = Join(done.lines, NL)],
                                   CTX_PREVIEW, now, log_ok))
        ELSE [done EXCEPT !.preview_txt = Join(done.lines, NL)]
  IN IF ~s.df.loaded THEN ShowMessage(s, "Atenção")
     ELSE IF ~Contains(s.df.columns, s.BASE_COL) THEN ShowMessage(s, "Erro")
     ELSE Show(IterRows([s EXCEPT !.pass = "preview"], DfHead(s.df, HEAD_ROWS), 1))

\* s.pass records that the handler got to its loop; s.raised that an
\* exception left a call.
on_preview(s, now, log_ok) ==
  LET Warn(logged) ==
        IF logged.raised THEN logged ELSE ShowMessage(logged, "EAN > 13 dígitos")
      Show(done) ==
        IF done.validate_ean13 /\ done.ean13_oversized # <<>>
        THEN Warn(_write_ean13_log([done EXCEPT !.preview_txt = Join(done.lines, NL)],
                                   CTX_PREVIEW, now, log_ok))
        ELSE [done EXCEPT !.preview_txt = Join(done.lines, NL)]
  IN IF ~s.df.loaded THEN ShowMessage(s, "Atenção")
     ELSE IF ~Contains(s.df.columns, s.BASE_COL) THEN ShowMessage(s, "Erro")
     ELSE Show(IterRows([s EXCEPT !.ean13_oversized = <<>>, !.pass = "preview"],
                        DfHead(s.df, HEAD_ROWS), 1))

\* variant: the export empties the preview box
on_save_clear_preview(s, out_path, out_ok, now, log_ok) ==
  LET Warn(logged) ==
        IF logged.raised
        THEN ShowMessage([logged EXCEPT !.raised = FALSE], "Erro ao salvar")
        ELSE ShowMessage(logged, "Exportado com avisos")
      Close(done) ==
        IF done.validate_ean13 /\ done.ean13_oversized # <<>>
        THEN Warn(_write_ean13_log([done EXCEPT !.out_file = FileText(done.lines)],
                                   CTX_EXPORT, now, log_ok))
        ELSE ShowMessage([done EXCEPT !.out_file = FileText(done.lines)], "Concluído")
  IN IF ~s.df.loaded THEN ShowMessage(s, "Atenção")
     ELSE IF ~Contains(s.df.columns, s.BASE_COL) THEN ShowMessage(s, "Erro")
     ELSE IF ~out_path THEN s
     ELSE IF ~out_ok
       THEN ShowMessage([s EXCEPT !.ean13_oversized = <<>>], "Erro ao salvar")
     ELSE Close(IterRows([s EXCEPT !.ean13_oversized = <<>>, !.pass = "export",
                          !.preview_txt = <<>>],
                         s.df, 1))

\* variant: the collection is emptied before the base column is looked for
on_save_reset_first(s, out_path, out_ok, now, log_ok) ==
  LET Warn(logged) ==
        IF logged.raised
        THEN ShowMessage([logged EXCEPT !.raised = FALSE], "Erro ao salvar")
        ELSE ShowMessage(logged, "Exportado com avisos")
      Close(done) ==
        IF done.validate_ean13 /\ done.ean13_oversized # <<>>
        THEN Warn(_write_ean13_log([done EXCEPT !.out_file = FileText(done.lines)],
                                   CTX_EXPORT, now, log_ok))
        ELSE ShowMessage([done EXCEPT !.out_file = FileText(done.lines)], "Concluído")
  IN IF ~s.df.loaded THEN ShowMessage(s, "Atenção")
     ELSE IF ~Contains(s.df.columns, s.BASE_COL)
       THEN ShowMessage([s EXCEPT !.ean13_oversized = <<>>], "Erro")
     ELSE IF ~out_path THEN s
     ELSE IF ~out_ok
       THEN ShowMessage([s EXCEPT !.ean13_oversized = <<>>], "Erro ao salvar")
     ELSE Close(IterRows([s EXCEPT !.ean13_oversized = <<>>, !.pass = "export"],
                         s.df, 1))

\* out_path: whether the save dialog returned a path; out_ok: whether
\* open(out_path, "w") and the writes succeed
on_save(s, out_path, out_ok, now, log_ok) ==
  LET Warn(logged) ==
        IF logged.raised
        THEN ShowMessage([logged EXCEPT !.raised = FALSE], "Erro ao salvar")
        ELSE ShowMessage(logged, "Exportado com avisos")
      Close(done) ==
        IF done.validate_ean13 /\ done.ean13_oversized # <<>>
        THEN Warn(_write_ean13_log([done EXCEPT !.out_file = FileText(done.lines)],
                                   CTX_EXPORT, now, log_ok))
        ELSE ShowMessage([done EXCEPT !.out_file = FileText(done.lines)], "Concluído")
  IN IF ~s.df.loaded THEN ShowMessage(s, "Atenção")
     ELSE IF ~Contains(s.df.columns, s.BASE_COL) THEN ShowMessage(s, "Erro")
     ELSE IF ~out_path THEN s
     ELSE IF ~out_ok
       THEN ShowMessage([s EXCEPT !.ean13_oversized = <<>>], "Erro ao salvar")
     ELSE Close(IterRows([s EXCEPT !.ean13_oversized = <<>>, !.pass = "export"],
                         s.df, 1))

\* raw is the DataFrame the parser returned
load_dataframe_from_file(s, raw) ==
  _populate_columns_ui([s EXCEPT !.df = NormalizeColumns(raw)])

\* chosen: whether the dialog returned a path; parsed: whether the file could
\* be read into raw
on_open_file(s, chosen, parsed, raw) ==
  IF ~chosen THEN s
  ELSE IF ~parsed THEN ShowMessage(s, "Erro ao abrir arquivo")
  ELSE [load_dataframe_from_file(s, raw) EXCEPT !.file_path = TRUE]

on_select_sheet(s, parsed, raw) ==
  IF ~s.file_path THEN s
  ELSE IF ~parsed THEN ShowMessage(s, "Erro ao trocar de aba")
  ELSE _populate_columns_ui([s EXCEPT !.df = NormalizeColumns(raw)])

\* ran: whether connecting and running the SQL succeeded with result raw
on_run_query(s, ran, raw, now, log_ok) ==
  LET Done(shown) ==
        IF shown.raised THEN shown ELSE ShowMessage(shown, "Consulta concluída")
  IN IF ~ran THEN ShowMessage(s, "Erro ao executar SQL")
     ELSE Done(on_preview(_populate_columns_ui([s EXCEPT !.df = NormalizeColumns(raw)]),
                          now, log_ok))

(***************************************************************************)
(* Inputs: the cell values, frames, labels and formats the environment can *)
(* supply.  A pool row gives one value per field; a layout gives the       *)
(* column names of a source, as the parser returns them, and the field     *)
(* each column carries.                                                    *)
(***************************************************************************)
\* the first row of the self-test frame
RowA ==
  [ci |-> StrV(<<"1", "2", "3">>),
   ean |-> StrV(<<"7", "8", "9">>),
   des |-> StrV(<<"A", "D", "S", "T", "R", "I", "G", "E", "N", "T", "E", " ", "3", "8", "7", " ", "F", "A", "C", "E", " ", "B", "E", "A", "U", "T", "I", "F", "U", "L">>),
   dep |-> StrV(<<"G", "E", "R", "A", "L">>),
   qtd |-> FloatV(<<"3">>, <<"0">>)]

\* the second row of the self-test frame: empty barcode, NaN quantity
RowB ==
  [ci |-> StrV(<<"4", "5", "6">>),
   ean |-> StrV(<<>>),
   des |-> StrV(<<"C", "R", "E", "M", "E", " ", "X", "Y", "Z">>),
   dep |-> StrV(<<"B", "E", "L", "E", "Z", "A">>),
   qtd |-> NaNV]

\* a 14-digit barcode written with a separator, a float code, a description with a line break
RowC ==
  [ci |-> FloatV(<<"7">>, <<"0">>),
   ean |-> StrV(<<" ", "1", "2", "3", "4", "5", "6", "7", "8", "-", "9", "0", "1", "2", "3", "4", " ">>),
   des |-> StrV(<<" ", "X", "\n", "Y", " ">>),
   dep |-> NoneV,
   qtd |-> FloatV(<<"3">>, <<"5">>)]

\* barcode "42", no internal code, empty description, blank department
RowD ==
  [ci |-> NoneV,
   ean |-> StrV(<<"4", "2">>),
   des |-> StrV(<<>>),
   dep |-> StrV(<<" ", " ">>),
   qtd |-> FloatV(<<"3">>, <<"0">>)]

\* a 15-digit barcode read as a float
RowE ==
  [ci |-> StrV(<<"9">>),
   ean |-> FloatV(<<"1", "2", "3", "4", "5", "6", "7", "8", "9", "0", "1", "2", "3", "4", "5">>, <<"0">>),
   des |-> StrV(<<"Z">>),
   dep |-> StrV(<<"G">>),
   qtd |-> NaNV]

\* thirteen digits written with separators
RowF ==
  [ci |-> StrV(<<" ", "8", " ">>),
   ean |-> StrV(<<"7", "8", "-", "9", "1", "2", "3", "4", "5", "6", "7", "8", "9", " ", "0">>),
   des |-> StrV(<<"W">>),
   dep |-> NaNV,
   qtd |-> FloatV(<<"0">>, <<"2", "5">>)]

\* a barcode written with a superscript two
RowG ==
  [ci |-> StrV(<<"5">>),
   ean |-> StrV(<<"4", SUP2>>),
   des |-> StrV(<<"V">>),
   dep |-> StrV(<<"H">>),
   qtd |-> NaNV]

\* a 14-digit barcode with a line break inside, a description with a tab
RowH ==
  [ci |-> StrV(<<"6">>),
   ean |-> StrV(<<"1", "2", "3", "4", "5", "6", "7", LF, "8", "9", "0", "1", "2", "3", "4">>),
   des |-> StrV(<<"U", TAB, "V">>),
   dep |-> NoneV,
   qtd |-> NaNV]

\* the self-test frame
LayoutFull ==
  <<[name |-> <<"C", "O", "D", "_", "I", "N", "T", "E", "R", "N", "O">>, fld |-> "ci"],
    [name |-> <<"C", "O", "D", "_", "E", "A", "N">>, fld |-> "ean"],
    [name |-> <<"D", "E", "S", "_", "P", "R", "O", "D", "U", "T", "O">>, fld |-> "des"],
    [name |-> <<"D", "E", "P", "A", "R", "T", "A", "M", "E", "N", "T", "O">>, fld |-> "dep"],
    [name |-> <<"Q", "T", "D", "_", "E", "S", "T", "O", "Q", "U", "E", "_", "A", "T", "U", "A", "L">>, fld |-> "qtd"]>>

\* a query result: lower-case names, another order
LayoutQuery ==
  <<[name |-> <<"q", "t", "d", "_", "e", "s", "t", "o", "q", "u", "e", "_", "a", "t", "u", "a", "l">>, fld |-> "qtd"],
    [name |-> <<"c", "o", "d", "_", "e", "a", "n">>, fld |-> "ean"],
    [name |-> <<"d", "e", "s", "_", "p", "r", "o", "d", "u", "t", "o">>, fld |-> "des"],
    [name |-> <<"c", "o", "d", "_", "i", "n", "t", "e", "r", "n", "o">>, fld |-> "ci"]>>

\* no base column
LayoutNoBase ==
  <<[name |-> <<"C", "O", "D", "_", "I", "N", "T", "E", "R", "N", "O">>, fld |-> "ci"],
    [name |-> <<"C", "O", "D", "_", "E", "A", "N">>, fld |-> "ean"],
    [name |-> <<"D", "E", "P", "A", "R", "T", "A", "M", "E", "N", "T", "O">>, fld |-> "dep"]>>

\* no COD_EAN column
LayoutNoEan ==
  <<[name |-> <<"C", "o", "d", "_", "I", "n", "t", "e", "r", "n", "o">>, fld |-> "ci"],
    [name |-> <<" ", "D", "e", "s", "_", "P", "r", "o", "d", "u", "t", "o", " ">>, fld |-> "des"],
    [name |-> <<"D", "E", "P", "A", "R", "T", "A", "M", "E", "N", "T", "O">>, fld |-> "dep"]>>

\* no COD_INTERNO column
LayoutNoInterno ==
  <<[name |-> <<"C", "O", "D", "_", "E", "A", "N">>, fld |-> "ean"],
    [name |-> <<"D", "E", "S", "_", "P", "R", "O", "D", "U", "T", "O">>, fld |-> "des"],
    [name |-> <<"Q", "T", "D", "_", "E", "S", "T", "O", "Q", "U", "E", "_", "A", "T", "U", "A", "L">>, fld |-> "qtd"]>>

\* the frame the parser returns for pool rows under a layout
Frame(layout, rows) ==
  DataFrame([i \in 1..Len(layout) |-> layout[i].name],
            [r \in 1..Len(rows) |-> [i \in 1..Len(layout) |-> rows[r][layout[i].fld]]])

FrameAB == Frame(LayoutFull, <<RowA, RowB>>)
FrameRejects == Frame(LayoutQuery, <<RowC, RowA, RowE, RowB>>)
FrameNoBase == Frame(LayoutNoBase, <<RowA>>)
\* twelve rows: a 14-digit barcode in row 7, a 15-digit one in row 11
FrameLong ==
  Frame(LayoutFull, <<RowA, RowB, RowD, RowF, RowA, RowB, RowC, RowD, RowF, RowA,
                      RowE, RowB>>)
FrameNoEan == Frame(LayoutNoEan, <<RowD, RowA>>)
FrameNoInterno == Frame(LayoutNoInterno, <<RowB, RowC>>)

\* the frames a session loads
Frames == {FrameAB, FrameRejects, FrameNoBase}

\* the [format] section of the INI file, as written in the file
IniDefault ==
  [BASE_COL |-> DES_PRODUTO,
   MANDATORY_PREFIX |-> COD_INTERNO \o <<",">> \o COD_EAN]

\* an INI file edited by hand: other letter case and blanks, and the
\* department in the place of the barcode
IniCustom ==
  [BASE_COL |-> <<" ", "d", "e", "s", "_", "p", "r", "o", "d", "u", "t", "o", " ">>,
   MANDATORY_PREFIX |-> <<" ", "c", "o", "d", "_", "i", "n", "t", "e", "r", "n", "o", " ", ",", " ", "d", "e", "p", "a", "r", "t", "a", "m", "e", "n", "t", "o", ",">>]

\* the INI file of a session
IniFiles == {IniDefault}

\* the INI files of the one-pass specification
LineIniFiles == {IniDefault, IniCustom}

\* the four format entries as the constructor sets them
FormatDefault ==
  [opening |-> <<"(">>, closing |-> <<")">>,
   pair_sep |-> <<" ", "/", " ">>, label_sep |-> <<":", " ">>]

\* another content of the four format entries
FormatBrackets ==
  [opening |-> <<"[">>, closing |-> <<"]", " ">>,
   pair_sep |-> <<";">>, label_sep |-> <<"=">>]

Formats == {FormatDefault, FormatBrackets}

\* texts typed into a label entry
Labels == {<<>>, <<"D", "E", "P">>}

\* what reading a source gives: no frame (the file cannot be parsed, the
\* connection or the SQL fails) or one of the frames
ReadOutcomes ==
  {[chosen |-> TRUE, parsed |-> FALSE, raw |-> NoDf]}
    \cup {[chosen |-> TRUE, parsed |-> TRUE, raw |-> f] : f \in Frames}

\* what the open dialog and the parser give: no path, or a read outcome
OpenOutcomes == {[chosen |-> FALSE, parsed |-> FALSE, raw |-> NoDf]} \cup ReadOutcomes

\* what the save dialog and the two files give: no path; the output file
\* cannot be opened; the output is written and the log can or cannot be
SaveOutcomes ==
  {[out_path |-> FALSE, out_ok |-> FALSE, log_ok |-> TRUE],
   [out_path |-> TRUE, out_ok |-> FALSE, log_ok |-> TRUE],
   [out_path |-> TRUE, out_ok |-> TRUE, log_ok |-> TRUE],
   [out_path |-> TRUE, out_ok |-> TRUE, log_ok |-> FALSE]}

\* the one reading of the clock the model uses, "2025-01-01 12:00:00"
Clock == {<<"2", "0", "2", "5", "-", "0", "1", "-", "0", "1", " ", "1", "2", ":", "0", "0", ":", "0", "0">>}

(***************************************************************************)
(* Bounds of the model.                                                    *)
(***************************************************************************)
\* handlers and edits run in a session
MaxOps == 4

(***************************************************************************)
(* State.                                                                  *)
(***************************************************************************)
VARIABLES
  BASE_COL,          \* module global, set from the INI file
  MANDATORY_PREFIX,  \* module global, set from the INI file
  df,                \* self.df
  file_path,         \* self.file_path is set
  col_vars,          \* self.col_vars: {column: include flag}
  label_vars,        \* self.label_vars: {column: label text}
  opening_var,       \* self.opening_var
  closing_var,       \* self.closing_var
  pair_sep_var,      \* self.pair_sep_var
  label_sep_var,     \* self.label_sep_var
  validate_ean13,    \* self.validate_ean13
  ean13_oversized,   \* self._ean13_oversized
  preview_txt,       \* the text of self.preview_txt
  out_file,          \* the content of the file an export writes
  log_file,          \* the content of ean13_invalid.log
  handler,           \* the last handler run: its dialogs, calls and I/O
  ops                \* handlers and edits run so far

vars ==
  <<BASE_COL, MANDATORY_PREFIX, df, file_path, col_vars, label_vars, opening_var,
    closing_var, pair_sep_var, label_sep_var, validate_ean13, ean13_oversized,
    preview_txt, out_file, log_file, handler, ops>>

\* the object as a handler finds it
Self ==
  [BASE_COL |-> BASE_COL, MANDATORY_PREFIX |-> MANDATORY_PREFIX, df |-> df,
   file_path |-> file_path, col_vars |-> col_vars, label_vars |-> label_vars,
   opening_var |-> opening_var, closing_var |-> closing_var,
   pair_sep_var |-> pair_sep_var, label_sep_var |-> label_sep_var,
   validate_ean13 |-> validate_ean13, ean13_oversized |-> ean13_oversized,
   preview_txt |-> preview_txt, out_file |-> out_file, log_file |-> log_file,
   msgs |-> <<>>, calls |-> <<>>, lines |-> <<>>, flush |-> "none", pass |-> "none",
   raised |-> FALSE]

\* the record of a handler: its name, what it showed and called, and the
\* contents it found on entry
Handler(s, op, entry) ==
  [op |-> op, msgs |-> s.msgs, calls |-> s.calls, lines |-> s.lines,
   flush |-> s.flush, pass |-> s.pass, raised |-> s.raised,
   prior |-> [ean13_oversized |-> entry.ean13_oversized,
              preview_txt |-> entry.preview_txt,
              out_file |-> entry.out_file,
              log_file |-> entry.log_file,
              df |-> entry.df,
              col_vars |-> entry.col_vars,
              label_vars |-> entry.label_vars]]

\* the object as the handler op leaves it
Install(after, op) ==
  \E s \in {after} :
  /\ BASE_COL' = s.BASE_COL
  /\ MANDATORY_PREFIX' = s.MANDATORY_PREFIX
  /\ df' = s.df
  /\ file_path' = s.file_path
  /\ col_vars' = s.col_vars
  /\ label_vars' = s.label_vars
  /\ opening_var' = s.opening_var
  /\ closing_var' = s.closing_var
  /\ pair_sep_var' = s.pair_sep_var
  /\ label_sep_var' = s.label_sep_var
  /\ validate_ean13' = s.validate_ean13
  /\ ean13_oversized' = s.ean13_oversized
  /\ preview_txt' = s.preview_txt
  /\ out_file' = s.out_file
  /\ log_file' = s.log_file
  /\ handler' = Handler(s, op, Self)

\* load_config_values(cfg) and ExportadorTXTApp.__init__
Constructed(ini) ==
  [BASE_COL |-> Upper(Strip(ini.BASE_COL)),
   MANDATORY_PREFIX |-> parse_mandatory_prefix(ini.MANDATORY_PREFIX),
   df |-> NoDf,
   file_path |-> FALSE,
   col_vars |-> <<>>,
   label_vars |-> <<>>,
   opening_var |-> FormatDefault.opening,
   closing_var |-> FormatDefault.closing,
   pair_sep_var |-> FormatDefault.pair_sep,
   label_sep_var |-> FormatDefault.label_sep,
   validate_ean13 |-> FALSE,
   ean13_oversized |-> <<>>,
   preview_txt |-> <<>>,
   out_file |-> <<>>,
   log_file |-> <<>>,
   msgs |-> <<>>, calls |-> <<>>, lines |-> <<>>, flush |-> "none", pass |-> "none",
   raised |-> FALSE]

\* the fields of the object are those of s
AppFields(s) ==
  /\ BASE_COL = s.BASE_COL
  /\ MANDATORY_PREFIX = s.MANDATORY_PREFIX
  /\ df = s.df
  /\ file_path = s.file_path
  /\ col_vars = s.col_vars
  /\ label_vars = s.label_vars
  /\ opening_var = s.opening_var
  /\ closing_var = s.closing_var
  /\ pair_sep_var = s.pair_sep_var
  /\ label_sep_var = s.label_sep_var
  /\ validate_ean13 = s.validate_ean13
  /\ ean13_oversized = s.ean13_oversized
  /\ preview_txt = s.preview_txt
  /\ out_file = s.out_file
  /\ log_file = s.log_file

\* the object is s, left so by op
AppIs(s, op) ==
  /\ AppFields(s)
  /\ handler = Handler(s, op, s)

Init ==
  /\ \E ini \in IniFiles : AppIs(Constructed(ini), "__init__")
  /\ ops = 0

(***************************************************************************)
(* Actions: one per handler, and one per edit of a Tk variable.            *)
(***************************************************************************)
Step == ops < MaxOps /\ ops' = ops + 1

OnOpenFile ==
  /\ Step
  /\ \E file \in OpenOutcomes :
       Install(on_open_file(Self, file.chosen, file.parsed, file.raw), "on_open_file")

OnSelectSheet ==
  /\ Step
  /\ \E sheet \in ReadOutcomes :
       Install(on_select_sheet(Self, sheet.parsed, sheet.raw), "on_select_sheet")

OnRunQuery ==
  /\ Step
  /\ \E query \in ReadOutcomes, now \in Clock, log_ok \in BOOLEAN :
       /\ ~query.parsed => log_ok
       /\ Install(on_run_query(Self, query.parsed, query.raw, now, log_ok),
                  "on_run_query")

\* the Cols spinbox: command=self._populate_columns_ui
OnColsSpinbox ==
  /\ Step
  /\ Install(_populate_columns_ui(Self), "_populate_columns_ui")

OnPreview ==
  /\ Step
  /\ \E now \in Clock, log_ok \in BOOLEAN :
       Install(on_preview(Self, now, log_ok), "on_preview")

OnSave ==
  /\ Step
  /\ \E save \in SaveOutcomes, now \in Clock :
       Install(on_save(Self, save.out_path, save.out_ok, now, save.log_ok), "on_save")

\* the "Validar EAN no formato EAN13" checkbox
ToggleValidate ==
  /\ Step
  /\ Install([Self EXCEPT !.validate_ean13 = ~@], "validate_ean13")

\* the "Usar" checkbox of a listed column
ToggleColumn ==
  /\ Step
  /\ \E i \in 1..Len(col_vars) :
       Install([Self EXCEPT !.col_vars[i].val = ~@], "col_vars")

\* the label entry of a listed column
EditLabel ==
  /\ Step
  /\ \E i \in 1..Len(label_vars), text \in Labels :
       /\ text # label_vars[i].val
       /\ Install([Self EXCEPT !.label_vars[i].val = text], "label_vars")

\* the four format entries
EditFormat ==
  /\ Step
  /\ \E fmt \in Formats :
       /\ fmt # [opening |-> opening_var, closing |-> closing_var,
                 pair_sep |-> pair_sep_var, label_sep |-> label_sep_var]
       /\ Install([Self EXCEPT !.opening_var = fmt.opening, !.closing_var = fmt.closing,
                               !.pair_sep_var = fmt.pair_sep,
                               !.label_sep_var = fmt.label_sep], "format")

Next ==
  \/ OnOpenFile
  \/ OnSelectSheet
  \/ OnRunQuery
  \/ OnColsSpinbox
  \/ OnPreview
  \/ OnSave
  \/ ToggleValidate
  \/ ToggleColumn
  \/ EditLabel
  \/ EditFormat

Spec == Init /\ [][Next]_vars

(***************************************************************************)
(* One pass over any loaded frame.  The session has loaded a frame of pool *)
(* rows under any layout, ticked any of the listed columns, typed any of   *)
(* the labels and set the format and the validation checkbox; one          *)
(* operation is left, a preview or an export.                              *)
(***************************************************************************)
\* rows of a frame of the one-pass specification
MaxRows == 1

Pool == {RowA, RowB, RowC, RowD, RowE, RowF, RowG, RowH}

Layouts == {LayoutFull, LayoutQuery, LayoutNoBase, LayoutNoEan, LayoutNoInterno}

LineFrames ==
  {Frame(layout, rows) : layout \in Layouts,
                         rows \in UNION {[1..n -> Pool] : n \in 1..MaxRows}}

\* texts typed into a label entry: empty, "DEP", " Q "
LineLabels == {<<>>, <<"D", "E", "P">>, <<" ", "Q", " ">>}

\* the object after any ticks on the listed columns and any label texts on
\* the ticked ones
Edited(s) ==
  UNION {
    {[s EXCEPT
        !.col_vars = [i \in 1..Len(s.col_vars) |-> [col |-> @[i].col, val |-> use[i]]],
        !.label_vars = [i \in 1..Len(s.label_vars) |->
                          [col |-> @[i].col,
                           val |-> IF text[i] = <<"*">> THEN @[i].val ELSE text[i]]],
        !.msgs = <<>>] :
       text \in {typed \in [1..Len(s.label_vars) -> LineLabels \cup {<<"*">>}] :
                   \A i \in 1..Len(s.col_vars) : ~use[i] => typed[i] = <<"*">>}} :
    use \in [1..Len(s.col_vars) -> BOOLEAN]}

InitLine ==
  /\ \E ini \in LineIniFiles, raw \in LineFrames, fmt \in Formats, validate \in BOOLEAN :
       \E s \in Edited(load_dataframe_from_file(Constructed(ini), raw)) :
         AppIs([s EXCEPT !.opening_var = fmt.opening, !.closing_var = fmt.closing,
                         !.pair_sep_var = fmt.pair_sep, !.label_sep_var = fmt.label_sep,
                         !.validate_ean13 = validate], "edit")
  /\ ops = MaxOps - 1

NextLine ==
  \/ OnPreview
  \/ OnSave

SpecLine == InitLine /\ [][NextLine]_vars

(***************************************************************************)
(* Passes over a loaded frame: the program after a file was opened, then   *)
(* previews, exports and edits of the checkboxes.                          *)
(***************************************************************************)
\* the frames of these sessions: one longer than a preview, one shorter
LongFrames == {FrameLong, FrameRejects}

InitLong ==
  /\ \E raw \in LongFrames, validate \in BOOLEAN :
       AppIs(on_open_file([Constructed(IniDefault) EXCEPT !.validate_ean13 = validate],
                          TRUE, TRUE, raw),
             "on_open_file")
  /\ ops = 1

NextLong ==
  \/ OnPreview
  \/ OnSave
  \/ ToggleValidate
  \/ ToggleColumn

SpecLong == InitLong /\ [][NextLong]_vars

(***************************************************************************)
(* Calls of the module-level functions.  An argument is drawn, the         *)
(* function is called on it, and smart_str is called once more on its own  *)
(* result.                                                                 *)
(***************************************************************************)
\* length of the texts drawn as arguments
MaxText == 3

\* the texts of at most n characters of chars
Texts(chars, n) == UNION {[1..k -> chars] : k \in 0..n}

\* the values smart_str is called on: None, NaN, floats, ints and texts
\* with blanks and tabs
Values ==
  {NoneV, NaNV, IntV(<<"4", "2">>)}
    \cup {FloatV(w, f) : w \in {<<"3">>, <<"-", "1", "2">>, <<"0">>},
                         f \in {<<"0">>, <<"5">>, <<"0", "0">>, <<"2", "5">>}}
    \cup {StrV(s) : s \in Texts({SP, TAB, "a", "3"}, MaxText)}

\* the column names abbrev_label is called on
Names ==
  Texts({"a", "B", "_", "-", SP}, MaxText)
    \cup {LayoutFull[4].name, LayoutFull[5].name,
          <<"D", "e", "p", "a", "r", "t", "a", "m", "e", "n", "t", "o">>,
          <<"a", "b", "c", "d", "e">>,
          <<"a", "b", "-", "c", "d", "e", "f", "g">>}

InitFn ==
  /\ AppFields(Constructed(IniDefault))
  /\ ops = 0
  /\ \/ \E x \in Values : handler = [op |-> "input", fn |-> "smart_str", arg |-> x]
     \/ \E name \in Names :
          handler = [op |-> "input", fn |-> "abbrev_label", arg |-> name]

Unchanged ==
  UNCHANGED <<BASE_COL, MANDATORY_PREFIX, df, file_path, col_vars, label_vars,
              opening_var, closing_var, pair_sep_var, label_sep_var, validate_ean13,
              ean13_oversized, preview_txt, out_file, log_file, ops>>

CallSmartStr ==
  /\ handler.op = "input" /\ handler.fn = "smart_str"
  /\ handler' = [op |-> "smart_str", fn |-> "smart_str", arg |-> handler.arg,
                 ret |-> smart_str(handler.arg)]
  /\ Unchanged

\* smart_str(smart_str(x))
CallSmartStrAgain ==
  /\ handler.op = "smart_str"
  /\ handler' = [op |-> "smart_str again", fn |-> "smart_str", arg |-> handler.arg,
                 first |-> handler.ret, ret |-> smart_str(StrV(handler.ret))]
  /\ Unchanged

CallAbbrevLabel ==
  /\ handler.op = "input" /\ handler.fn = "abbrev_label"
  /\ handler' = [op |-> "abbrev_label", fn |-> "abbrev_label", arg |-> handler.arg,
                 ret |-> abbrev_label(handler.arg)]
  /\ Unchanged

NextFn ==
  \/ CallSmartStr
  \/ CallSmartStrAgain
  \/ CallAbbrevLabel

SpecFn == InitFn /\ [][NextFn]_vars

(***************************************************************************)
(* The earlier program exportador_txt_gui_xls_ou_postgres_ini_merged_      *)
(* weighted2.py.  Its load handlers differ from the ones above; its        *)
(* _populate_columns_ui, _build_line, on_preview and on_save do what the    *)
(* ones above do on the frames of the model.                               *)
(***************************************************************************)
\* self.df = df; self._populate_columns_ui(): the names are left as parsed
load_dataframe_from_file_weighted2(s, raw) ==
  _populate_columns_ui([s EXCEPT !.df = raw])

on_open_file_weighted2(s, chosen, parsed, raw) ==
  IF ~chosen THEN s
  ELSE IF ~parsed THEN ShowMessage(s, "Erro ao abrir arquivo")
  ELSE [load_dataframe_from_file_weighted2(s, raw) EXCEPT !.file_path = TRUE]

\* self.df = xl.parse(sheet); self._populate_columns_ui()
on_select_sheet_weighted2(s, parsed, raw) ==
  IF ~s.file_path THEN s
  ELSE IF ~parsed THEN ShowMessage(s, "Erro ao trocar de aba")
  ELSE _populate_columns_ui([s EXCEPT !.df = raw])

\* the query path assigns df.columns = [c.strip().upper() ...] before it
\* stores the frame
on_run_query_weighted2(s, ran, raw, now, log_ok) ==
  LET Done(shown) ==
        IF shown.raised THEN shown ELSE ShowMessage(shown, "Consulta concluída")
  IN IF ~ran THEN ShowMessage(s, "Erro ao executar SQL")
     ELSE Done(on_preview(_populate_columns_ui([s EXCEPT !.df = NormalizeColumns(raw)]),
                          now, log_ok))

OnOpenFileWeighted2 ==
  /\ Step
  /\ \E file \in OpenOutcomes :
       Install(on_open_file_weighted2(Self, file.chosen, file.parsed, file.raw),
               "on_open_file")

OnSelectSheetWeighted2 ==
  /\ Step
  /\ \E sheet \in ReadOutcomes :
       Install(on_select_sheet_weighted2(Self, sheet.parsed, sheet.raw),
               "on_select_sheet")

OnRunQueryWeighted2 ==
  /\ Step
  /\ \E query \in ReadOutcomes, now \in Clock, log_ok \in BOOLEAN :
       /\ ~query.parsed => log_ok
       /\ Install(on_run_query_weighted2(Self, query.parsed, query.raw, now, log_ok),
                  "on_run_query")

NextWeighted2 ==
  \/ OnOpenFileWeighted2
  \/ OnSelectSheetWeighted2
  \/ OnRunQueryWeighted2
  \/ OnPreview
  \/ OnSave
  \/ ToggleColumn

SpecWeighted2 == Init /\ [][NextWeighted2]_vars

(***************************************************************************)
(* The program exportador_pipe_gui.py: its functions sanitize_text and     *)
(* build_lines, called on a frame of the three picked columns.             *)
(***************************************************************************)
sanitize_text(val) ==
  IF val.k \in {"none", "nan"} THEN <<>>
  ELSE Strip(ReplaceCh(ReplaceCh(ReplaceCh(PyStr(val), CR, SP), LF, SP), "|", "/"))

\* rows: the rows of the frame, each the cells of col_sistema, col_barras
\* and col_nome
build_lines(rows, extra_text, extra_pos) ==
  LET Nome(nome) ==
        IF extra_text = <<>> THEN nome
        ELSE IF extra_pos = "prefixo" THEN Strip(extra_text \o <<SP>> \o nome)
        ELSE IF nome # <<>> THEN Strip(nome \o <<SP>> \o extra_text)
        ELSE Strip(extra_text)
  IN [r \in 1..Len(rows) |->
        sanitize_text(rows[r][1]) \o <<"|">> \o sanitize_text(rows[r][2]) \o <<"|">>
          \o Nome(sanitize_text(rows[r][3]))]

\* cells read with dtype=str: a text or a missing value
PipeCells ==
  {NaNV, StrV(<<>>), StrV(<<"7">>), StrV(<<SP, "a", "|", "b", SP>>),
   StrV(<<"x", CR, LF, "y">>)}

\* what the entry of the additional text, or the command line, gives
ExtraTexts == {<<>>, <<"E">>, <<SP, "E", SP>>, <<"A", "|", "B">>, <<"A", LF, "B">>}

ExtraPositions == {"sufixo", "prefixo"}

InitPipe ==
  /\ AppFields(Constructed(IniDefault))
  /\ ops = 0
  /\ \E c1 \in PipeCells, c2 \in PipeCells, c3 \in PipeCells,
        extra_text \in ExtraTexts, extra_pos \in ExtraPositions :
       handler = [op |-> "input", fn |-> "build_lines", rows |-> <<(<<c1, c2, c3>>)>>,
                  extra_text |-> extra_text, extra_pos |-> extra_pos, ret |-> <<>>]

CallBuildLines ==
  /\ handler.op = "input" /\ handler.fn = "build_lines"
  /\ handler' = [handler EXCEPT
                   !.op = "build_lines",
                   !.ret = build_lines(handler.rows, handler.extra_text,
                                       handler.extra_pos)]
  /\ Unchanged

NextPipe == CallBuildLines

SpecPipe == InitPipe /\ [][NextPipe]_vars

(***************************************************************************)
(* What the specification says of a row of the loaded frame, stated on the *)
(* cell values and not through the program's operators.                    *)
(***************************************************************************)
First(S) == CHOOSE i \in S : \A j \in S : i <= j

Last(S) == CHOOSE i \in S : \A j \in S : j <= i

\* a text without its leading and trailing whitespace
Trimmed(text) ==
  LET Cut(ink) == IF ink = {} THEN <<>> ELSE SubSeq(text, First(ink), Last(ink))
  IN Cut({i \in 1..Len(text) : ~IsSpace(text[i])})

\* the normalized text of a cell value
Normalized(x) ==
  CASE x.k \in {"none", "nan"} -> <<>>
    [] x.k = "float" /\ (\A i \in 1..Len(x.f) : x.f[i] = "0") -> x.w
    [] x.k = "float" -> x.w \o <<".">> \o x.f
    [] OTHER -> Trimmed(x.w)

HasColumn(col) == \E c \in 1..Len(df.columns) : df.columns[c] = col

\* the normalized value of column col in row i, empty when the frame has no
\* such column
Field(i, col) ==
  IF HasColumn(col)
  THEN Normalized(df.data[i][CHOOSE c \in 1..Len(df.columns) : df.columns[c] = col])
  ELSE <<>>

\* the number of digits of the barcode of row i
EanDigits(i) == DigitsOf(Field(i, COD_EAN))

\* the pairs of row i from the listed column c on: the trimmed label, ": "
\* and the value, or the value alone under an empty label; a ticked column
\* with an empty value gives none
RECURSIVE Pairs(_, _)
Pairs(i, c) ==
  LET Pair(label, value) == IF label = <<>> THEN value ELSE label \o <<":", " ">> \o value
      Of(value) ==
        IF col_vars[c].val /\ value # <<>>
        THEN <<Pair(Trimmed(label_vars[c].val), value)>>
        ELSE <<>>
  IN IF c > Len(col_vars) THEN <<>>
     ELSE Of(Field(i, col_vars[c].col)) \o Pairs(i, c + 1)

\* the constructor's format and the default base column
DefaultFormat ==
  /\ BASE_COL = DES_PRODUTO
  /\ opening_var = <<"(">>
  /\ closing_var = <<")">>
  /\ pair_sep_var = <<" ", "/", " ">>
  /\ label_sep_var = <<":", " ">>

DefaultLine(i) ==
  LET Block(pairs) ==
        IF pairs = <<>> THEN <<>>
        ELSE <<" ", "(">> \o Join(pairs, <<" ", "/", " ">>) \o <<")">>
  IN Field(i, COD_INTERNO) \o <<"|">> \o Field(i, COD_EAN) \o <<"|">>
       \o Field(i, DES_PRODUTO) \o Block(Pairs(i, 1))

\* "123|789|ADSTRIGENTE 387 FACE BEAUTIFUL (DEP: GERAL / QTD: 3)"
LineA ==
  <<"1", "2", "3", "|", "7", "8", "9", "|", "A", "D", "S", "T", "R", "I", "G", "E",
    "N", "T", "E", " ", "3", "8", "7", " ", "F", "A", "C", "E", " ", "B", "E", "A",
    "U", "T", "I", "F", "U", "L", " ", "(", "D", "E", "P", ":", " ", "G", "E", "R",
    "A", "L", " ", "/", " ", "Q", "T", "D", ":", " ", "3", ")">>

\* "456||CREME XYZ (DEP: BELEZA)"
LineB ==
  <<"4", "5", "6", "|", "|", "C", "R", "E", "M", "E", " ", "X", "Y", "Z", " ", "(",
    "D", "E", "P", ":", " ", "B", "E", "L", "E", "Z", "A", ")">>

\* row i is the pool row, in a frame of the self-test's columns with
\* DEPARTAMENTO labelled DEP and the quantity labelled QTD, both ticked
Scenario(i, row) ==
  /\ df.columns = [c \in 1..Len(LayoutFull) |-> LayoutFull[c].name]
  /\ df.data[i] = [c \in 1..Len(LayoutFull) |-> row[LayoutFull[c].fld]]
  /\ col_vars = <<[col |-> LayoutFull[4].name, val |-> TRUE],
                  [col |-> LayoutFull[5].name, val |-> TRUE]>>
  /\ label_vars = <<[col |-> LayoutFull[4].name, val |-> <<"D", "E", "P">>],
                    [col |-> LayoutFull[5].name, val |-> <<"Q", "T", "D">>]>>

(***************************************************************************)
(* Claims on one row.                                                      *)
(***************************************************************************)
\* C1: under the default format and with validation off, a row whose base
\* text is not empty gives the line N(COD_INTERNO)|N(COD_EAN)|N(DES_PRODUTO),
\* followed, when at least one ticked column has a non-empty value, by " ("
\* the pairs joined with " / " and ")"; an empty barcode leaves the middle
\* field empty, and the two self-test rows give their two lines.
C1_DefaultLine ==
  (handler.pass # "none" /\ ~validate_ean13 /\ DefaultFormat) =>
    \A i \in 1..Len(handler.calls) :
      /\ Field(i, DES_PRODUTO) # <<>> =>
            handler.calls[i].ret = [some |-> TRUE, line |-> DefaultLine(i)]
      /\ Scenario(i, RowA) => handler.calls[i].ret.line = LineA
      /\ Scenario(i, RowB) => handler.calls[i].ret.line = LineB

\* the first self-test row has been built into its line
C1_Witness ==
  /\ handler.pass # "none" /\ ~validate_ean13 /\ DefaultFormat
  /\ \E i \in 1..Len(handler.calls) :
       Scenario(i, RowA) /\ handler.calls[i].ret.line = LineA

\* C2: a call of the canonicalizer on a value with the digits d returns
\* (True, d padded on the left with zeros to thirteen characters) when d has
\* at most 13 digits, and (False, "") when it has more.
C2_Canonical ==
  \A i \in 1..Len(handler.calls) :
    handler.calls[i].ean13.called =>
      LET Returns(d, got) ==
            IF Len(d) <= 13
            THEN /\ got.ok
                 /\ Len(got.ean) = 13
                 /\ SubSeq(got.ean, 14 - Len(d), 13) = d
                 /\ \A j \in 1..(13 - Len(d)) : got.ean[j] = "0"
            ELSE ~got.ok /\ got.ean = <<>>
      IN Returns(EanDigits(i), handler.calls[i].ean13)

\* the barcode 789 has been padded to 0000000000789
C2_Witness ==
  \E i \in 1..Len(handler.calls) :
    /\ EanDigits(i) = <<"7", "8", "9">>
    /\ handler.calls[i].ean13 =
         [called |-> TRUE, ok |-> TRUE,
          ean |-> <<"0", "0", "0", "0", "0", "0", "0", "0", "0", "0", "7", "8", "9">>]

\* C3: with validation on, a row whose barcode has more than 13 digits
\* gives no line and adds exactly one rejected record: the normalized
\* internal code, the normalized barcode as it was, the base text and the
\* digit count, which is at least 14; a row with at most 13 digits gives a
\* line and adds no record.
C3_Rejection ==
  (handler.pass # "none" /\ validate_ean13) =>
    /\ \A i \in 1..Len(handler.calls) :
         IF Len(EanDigits(i)) > 13
         THEN /\ handler.calls[i].ret = [some |-> FALSE, line |-> <<>>]
              /\ handler.calls[i].added =
                   <<[COD_IN |-> Field(i, COD_INTERNO),
                      COD_EAN |-> Field(i, COD_EAN),
                      DES_PRODUTO |-> Field(i, BASE_COL),
                      LEN |-> Len(EanDigits(i))]>>
              /\ handler.calls[i].added[1].LEN >= 14
         ELSE handler.calls[i].ret.some /\ handler.calls[i].added = <<>>
    /\ Len(handler.lines) =
         Cardinality({i \in 1..Len(handler.calls) : Len(EanDigits(i)) <= 13})

\* a barcode of 14 digits and a separator has been rejected
C3_Witness ==
  /\ handler.pass # "none" /\ validate_ean13
  /\ \E i \in 1..Len(handler.calls) :
       /\ Len(EanDigits(i)) = 14
       /\ Len(Field(i, COD_EAN)) = 15
       /\ ~handler.calls[i].ret.some
       /\ Len(handler.calls[i].added) = 1

\* C10: a frame without the COD_EAN column gives every row a line whose
\* barcode field is empty and rejects none, and a frame without the
\* COD_INTERNO column gives lines whose first field is empty, whether the
\* validation checkbox is ticked or not.
C10_MissingColumnEmpty ==
  handler.pass # "none" =>
    \A i \in 1..Len(handler.calls) :
      /\ ~HasColumn(COD_EAN) =>
            /\ handler.calls[i].ret.some
            /\ handler.calls[i].added = <<>>
            /\ SubSeq(handler.calls[i].ret.line, 1, Len(Field(i, COD_INTERNO)) + 2)
                 = Field(i, COD_INTERNO) \o <<"|", "|">>
      /\ (~HasColumn(COD_INTERNO) /\ handler.calls[i].ret.some) =>
            Head(handler.calls[i].ret.line) = "|"

(***************************************************************************)
(* Claims on a pass.  The rows of the pass are the first PassLen rows of   *)
(* the frame the handler leaves loaded; a line is what one call of         *)
(* _build_line returns for one row.                                        *)
(***************************************************************************)
PassLen ==
  IF handler.pass = "preview" /\ Len(df.data) > 10 THEN 10 ELSE Len(df.data)

\* row i is refused: validation is on and its barcode has over 13 digits
Refused(i) == validate_ean13 /\ Len(EanDigits(i)) > 13

\* the records of the refused rows from row i on, in row order
RECURSIVE RejectsFrom(_)
RejectsFrom(i) ==
  IF i > PassLen THEN <<>>
  ELSE (IF Refused(i)
        THEN <<[COD_IN |-> Field(i, COD_INTERNO), COD_EAN |-> Field(i, COD_EAN),
                DES_PRODUTO |-> Field(i, BASE_COL), LEN |-> Len(EanDigits(i))]>>
        ELSE <<>>) \o RejectsFrom(i + 1)

\* the lines of the accepted rows from row i on, in row order
RECURSIVE AcceptedFrom(_)
AcceptedFrom(i) ==
  IF i > PassLen THEN <<>>
  ELSE (IF Refused(i) THEN <<>> ELSE <<_build_line(Self, Row(df, i)).ret.line>>)
         \o AcceptedFrom(i + 1)

\* the text the handler added at the end of the log
LogAdded == SubSeq(log_file, Len(handler.prior.log_file) + 1, Len(log_file))

\* a block of the log: the header with the time, the context and the count,
\* the column header, one line per record, a blank line
LogBlock(now, context, recs) ==
  <<"[">> \o now \o <<"]", " ">> \o context \o LOG_TITLE \o NatToStr(Len(recs)) \o NL
    \o LOG_COLUMNS \o NL
    \o Join([k \in 1..Len(recs) |-> LogRecordLine(recs[k])], <<>>)
    \o NL

PassContext == IF handler.pass = "export" THEN CTX_EXPORT ELSE CTX_PREVIEW

\* C4: an export pass calls _build_line once per row of the frame, in row
\* order; the lines written plus the records collected are as many as the
\* rows, and the file holds the lines of the accepted rows in row order,
\* those after a refused row included.
C4_ExportPartition ==
  handler.pass = "export" =>
    /\ Len(handler.calls) = Len(df.data)
    /\ \A i \in 1..Len(df.data) : handler.calls[i].ret.some = ~Refused(i)
    /\ Len(handler.lines) + Len(ean13_oversized) = Len(df.data)
    /\ handler.lines = AcceptedFrom(1)
    /\ out_file = Join([k \in 1..Len(handler.lines) |-> handler.lines[k] \o NL], <<>>)

\* an export has refused rows 1 and 3 and written rows 2 and 4
C4_Witness ==
  /\ handler.pass = "export"
  /\ Len(df.data) = 4
  /\ Refused(1) /\ ~Refused(2) /\ Refused(3) /\ ~Refused(4)
  /\ Len(handler.lines) = 2
  /\ out_file # <<>>

\* C5: when a preview or export pass ends, the collection holds the
\* records of the rows refused in that pass, in row order, and nothing else,
\* whatever an earlier pass left in it.
C5_FreshCollection ==
  handler.pass # "none" => ean13_oversized = RejectsFrom(1)

\* a pass that found records of an earlier pass has ended with its own
C5_Witness ==
  /\ handler.pass # "none"
  /\ handler.prior.ean13_oversized # <<>>
  /\ ean13_oversized # <<>>
  /\ ean13_oversized = RejectsFrom(1)

C7_AppendOnly ==
  /\ Len(handler.prior.log_file) <= Len(log_file)
  /\ SubSeq(log_file, 1, Len(handler.prior.log_file)) = handler.prior.log_file
  /\ IF handler.flush = "written"
     THEN \E now \in Clock :
            LogAdded = LogBlock(now, PassContext, ean13_oversized)
     ELSE LogAdded = <<>>

\* a block has been appended to a log that held one
C7_Witness ==
  /\ handler.flush = "written"
  /\ handler.prior.log_file # <<>>
  /\ LogAdded # <<>>
  /\ log_file = handler.prior.log_file \o LogAdded

\* the handler op, run on the object it found with a log that can be
\* written, would leave these texts, records and dialogs
SameAsLogged(s) ==
  /\ preview_txt' = s.preview_txt
  /\ out_file' = s.out_file
  /\ ean13_oversized' = s.ean13_oversized
  /\ handler'.msgs = s.msgs

\* C8: a handler whose log flush fails ends as it does when the flush
\* succeeds: no exception leaves it, and the preview text, the output
\* file, the collection and the dialogs shown are the same.
C8_LogFailureAbsorbed ==
  [][handler'.flush = "failed" =>
       /\ ~handler'.raised
       /\ handler'.pass # "none"
       /\ \E now \in Clock :
            \/ /\ handler'.op = "on_preview"
               /\ SameAsLogged(on_preview(Self, now, TRUE))
            \/ /\ handler'.op = "on_save"
               /\ SameAsLogged(on_save(Self, TRUE, TRUE, now, TRUE))
            \/ /\ handler'.op = "on_run_query"
               /\ \E query \in ReadOutcomes :
                    /\ query.parsed
                    /\ df' = NormalizeColumns(query.raw)
                    /\ SameAsLogged(on_run_query(Self, TRUE, query.raw, now, TRUE))]_vars

\* an export has written its file and shown its warning after a flush that
\* failed
C8_Witness ==
  /\ handler.flush = "failed"
  /\ handler.op = "on_save"
  /\ handler.msgs = <<"Exportado com avisos">>
  /\ out_file # <<>>
  /\ ean13_oversized # <<>>

\* C9: with a frame loaded that lacks the base column, a preview or an
\* export shows the error and does nothing else: no call of _build_line, no
\* line, the preview text, the output file, the collection and the log as
\* they were.
C9_BaseColumnMissing ==
  (handler.op \in {"on_preview", "on_save", "on_run_query"}
     /\ df.loaded /\ ~HasColumn(BASE_COL)) =>
    /\ handler.op \in {"on_preview", "on_save"} => handler.msgs = <<"Erro">>
    /\ handler.pass = "none"
    /\ handler.calls = <<>>
    /\ handler.lines = <<>>
    /\ handler.flush = "none"
    /\ preview_txt = handler.prior.preview_txt
    /\ out_file = handler.prior.out_file
    /\ ean13_oversized = handler.prior.ean13_oversized
    /\ log_file = handler.prior.log_file

\* an export over a frame without the base column has left the preview
\* text, the records and the log of an earlier pass
C9_Witness ==
  /\ handler.op = "on_save"
  /\ df.loaded /\ ~HasColumn(BASE_COL)
  /\ handler.msgs = <<"Erro">>
  /\ preview_txt # <<>>
  /\ ean13_oversized # <<>>
  /\ log_file # <<>>

(***************************************************************************)
(* Claims on the column list.                                              *)
(***************************************************************************)
\* C11: a handler that rebuilds the column list (file open, sheet change,
\* query, Cols spinbox) leaves every listed column that was listed before
\* with the tick and the label text it had under that name, and every
\* listed column that was not listed before unticked and labelled
\* abbrev_label(name).
C11_RebuildKeepsByName ==
  [][handler'.op \in {"on_open_file", "on_select_sheet", "on_run_query",
                      "_populate_columns_ui"} =>
       /\ Keys(label_vars') = Keys(col_vars')
       /\ \A i \in 1..Len(col_vars') :
            IF HasKey(col_vars, col_vars'[i].col)
            THEN /\ col_vars'[i].val = Get(col_vars, col_vars'[i].col)
                 /\ label_vars'[i].val = Get(label_vars, col_vars'[i].col)
            ELSE /\ col_vars'[i].val = FALSE
                 /\ label_vars'[i].val = abbrev_label(col_vars'[i].col)]_vars

\* opening the self-test frame after a query has listed the new column
\* DEPARTAMENTO unticked as DEPA, and the quantity, now second, ticked with
\* the label typed for it
C11_Witness ==
  /\ handler.op = "on_open_file"
  /\ col_vars = <<[col |-> LayoutFull[4].name, val |-> FALSE],
                  [col |-> LayoutFull[5].name, val |-> TRUE]>>
  /\ label_vars = <<[col |-> LayoutFull[4].name, val |-> <<"D", "E", "P", "A">>],
                    [col |-> LayoutFull[5].name, val |-> <<"D", "E", "P">>]>>

\* C12: neither the base column nor a column _build_line emits as a fixed
\* field (COD_INTERNO, COD_EAN) is listed for the attribute block, whatever
\* the INI file gave as MANDATORY_PREFIX.
C12_PrefixNotSelectable ==
  \A i \in 1..Len(col_vars) : col_vars[i].col \notin {BASE_COL, COD_INTERNO, COD_EAN}

\* C13: a line is the normalized values of the columns of MANDATORY_PREFIX,
\* in the configured order, joined with "|", then "|" and the final
\* description (stated for validation off, where the fields are the
\* normalized values themselves).
C13_ConfiguredPrefix ==
  (handler.pass # "none" /\ ~validate_ean13) =>
    \A i \in 1..Len(handler.calls) :
      handler.calls[i].ret.some =>
        handler.calls[i].ret.line =
          Join([k \in 1..Len(MANDATORY_PREFIX) |-> Field(i, MANDATORY_PREFIX[k])],
               <<"|">>)
            \o <<"|">> \o handler.calls[i].desc.desc_final

(***************************************************************************)
(* Claims on the description and the attribute block.  The description of  *)
(* a line is what follows its two fixed fields and their separators; the    *)
(* attribute block is what the call of _build_extra_block returned.         *)
(***************************************************************************)
\* the barcode field of the line of row i
EanField(i) ==
  IF handler.calls[i].ean13.called THEN handler.calls[i].ean13.ean
  ELSE Field(i, COD_EAN)

\* the description of the line of row i
Description(i) ==
  SubSeq(handler.calls[i].ret.line,
         Len(Field(i, COD_INTERNO)) + Len(EanField(i)) + 3,
         Len(handler.calls[i].ret.line))

\* row i gave a line made of its two fixed fields and a description
Emitted(i) ==
  /\ handler.calls[i].ret.some
  /\ handler.calls[i].desc.built
  /\ handler.calls[i].ret.line =
       Field(i, COD_INTERNO) \o <<"|">> \o EanField(i) \o <<"|">> \o Description(i)

\* C14 as stated: with a non-empty block the description is the base text,
\* one space and the block unchanged, for every base text and every
\* opening and closing; with an empty block it is the base text.
C14_SpaceThenBlock ==
  \A i \in 1..Len(handler.calls) :
    handler.calls[i].ret.some =>
      /\ Emitted(i)
      /\ Description(i) =
           IF handler.calls[i].desc.extra # <<>>
           THEN Field(i, BASE_COL) \o <<" ">> \o handler.calls[i].desc.extra
           ELSE Field(i, BASE_COL)

\* C14, amended: with a non-empty block the description is the base text,
\* one space and the block, without the leading and trailing whitespace of
\* the whole: it is exactly base text, space, block when the base text is
\* not empty and the block does not end in whitespace, and it starts with
\* the block, with no space before it, when the base text is empty; with an
\* empty block it is the base text.
C14_SpaceThenBlockTrimmed ==
  \A i \in 1..Len(handler.calls) :
    handler.calls[i].ret.some =>
      LET Holds(base, block, desc) ==
            /\ desc = IF block # <<>>
                      THEN Trimmed(base \o <<" ">> \o block)
                      ELSE base
            /\ (block # <<>> /\ base # <<>> /\ ~IsSpace(block[Len(block)])) =>
                  desc = base \o <<" ">> \o block
            /\ (block # <<>> /\ base = <<>>) => desc = Trimmed(block)
      IN /\ Emitted(i)
         /\ Holds(Field(i, BASE_COL), handler.calls[i].desc.extra, Description(i))

\* a row with an empty base text has given a description that is its block,
\* with no space before it
C14_Witness ==
  \E i \in 1..Len(handler.calls) :
    /\ Emitted(i)
    /\ Field(i, BASE_COL) = <<>>
    /\ handler.calls[i].desc.extra # <<>>
    /\ Description(i) = handler.calls[i].desc.extra

\* no ticked column has a non-empty value in row i
NoFragments(i) ==
  \A c \in 1..Len(col_vars) : col_vars[c].val => Field(i, col_vars[c].col) = <<>>

\* C15: when no ticked column has a non-empty value in the row (no column
\* ticked included), _build_extra_block returns the empty string, not
\* opening and closing around nothing, and the description is the base text
\* alone, with no blank at its end.
C15_EmptyBlock ==
  \A i \in 1..Len(handler.calls) :
    (handler.calls[i].ret.some /\ NoFragments(i)) =>
      /\ Emitted(i)
      /\ handler.calls[i].desc.extra = <<>>
      /\ Description(i) = Field(i, BASE_COL)
      /\ Description(i) # <<>> => ~IsSpace(Description(i)[Len(Description(i))])

\* a row whose only ticked column is empty has given its base text alone
C15_Witness ==
  \E i \in 1..Len(handler.calls) :
    /\ Emitted(i) /\ NoFragments(i)
    /\ \E c \in 1..Len(col_vars) : col_vars[c].val
    /\ Field(i, BASE_COL) # <<>>
    /\ Description(i) = Field(i, BASE_COL)

\* the fragments of row i from the listed column c on: for a ticked column
\* with a non-empty value, the label (the text of its entry without the
\* whitespace around it), the label separator and the value, or the value
\* alone under an empty label
RECURSIVE Fragments(_, _)
Fragments(i, c) ==
  LET Fragment(label, value) ==
        IF label = <<>> THEN value ELSE label \o label_sep_var \o value
      Of(value) ==
        IF col_vars[c].val /\ value # <<>>
        THEN <<Fragment(Trimmed(label_vars[c].val), value)>>
        ELSE <<>>
  IN IF c > Len(col_vars) THEN <<>>
     ELSE Of(Field(i, col_vars[c].col)) \o Fragments(i, c + 1)

\* the place of a name among the columns of the frame
ColumnIndex(name) == CHOOSE c \in 1..Len(df.columns) : df.columns[c] = name

\* C16: the block is made of one fragment per ticked column with a
\* non-empty value, in the order of the column list, which is the order of
\* the frame's columns; the fragments are joined with the pair separator
\* and put between opening and closing.
C16_Fragments ==
  /\ \A a, b \in 1..Len(col_vars) :
       a < b => ColumnIndex(col_vars[a].col) < ColumnIndex(col_vars[b].col)
  /\ \A i \in 1..Len(handler.calls) :
       handler.calls[i].desc.built =>
         handler.calls[i].desc.extra =
           IF Fragments(i, 1) = <<>> THEN <<>>
           ELSE opening_var \o Join(Fragments(i, 1), pair_sep_var) \o closing_var

\* a block of two fragments, one of them under an empty label, has been
\* built with the other format
C16_Witness ==
  \E i \in 1..Len(handler.calls) :
    /\ handler.calls[i].desc.built
    /\ Len(Fragments(i, 1)) = 2
    /\ \E c \in 1..Len(col_vars) : col_vars[c].val /\ Trimmed(label_vars[c].val) = <<>>
    /\ opening_var = <<"[">>
    /\ handler.calls[i].desc.extra =
         <<"[">> \o Fragments(i, 1)[1] \o <<";">> \o Fragments(i, 1)[2] \o <<"]", " ">>

(***************************************************************************)
(* Claims on the module-level functions.                                   *)
(***************************************************************************)
\* C17: smart_str returns a text for every value: "" for None and for NaN,
\* the integer digits with no ".0" for a float with a zero fraction (3.0
\* gives "3"), the decimal text for another float (3.5 gives "3.5"), and
\* for any other value its str without leading and trailing whitespace.
C17_SmartStr ==
  handler.op = "smart_str" =>
    /\ handler.ret = Normalized(handler.arg)
    /\ handler.arg \in {NoneV, NaNV} => handler.ret = <<>>
    /\ handler.arg = FloatV(<<"3">>, <<"0">>) => handler.ret = <<"3">>
    /\ handler.arg = FloatV(<<"3">>, <<"5">>) => handler.ret = <<"3", ".", "5">>

\* smart_str(3.0) has returned "3"
C17_Witness ==
  /\ handler.op = "smart_str"
  /\ handler.arg = FloatV(<<"3">>, <<"0">>)
  /\ handler.ret = <<"3">>

\* C18: smart_str returns a text that has no whitespace at its ends as it
\* is, and smart_str of the result of smart_str is that result.
C18_Idempotent ==
  /\ (handler.op = "smart_str" /\ handler.arg.k = "str"
        /\ (handler.arg.w # <<>> =>
              ~IsSpace(Head(handler.arg.w))
                /\ ~IsSpace(handler.arg.w[Len(handler.arg.w)]))) =>
       handler.ret = handler.arg.w
  /\ handler.op = "smart_str again" => handler.ret = handler.first

\* smart_str has been called on what it returned for a text with
\* whitespace at both ends
C18_Witness ==
  /\ handler.op = "smart_str again"
  /\ handler.arg = StrV(<<SP, "a", TAB>>)
  /\ handler.first = <<"a">>
  /\ handler.ret = <<"a">>

\* the part of a name before its first "_", "-" or blank
FirstSegment(name) ==
  LET Cut(seps) == IF seps = {} THEN name ELSE SubSeq(name, 1, First(seps) - 1)
  IN Cut({j \in 1..Len(name) : name[j] \in {"_", "-", " "}})

IsDecimal(ch) == ch \in {"0", "1", "2", "3", "4", "5", "6", "7", "8", "9"}

\* C20: with validation on, the barcode field of every line of a preview
\* or export pass has exactly 13 characters, all of them decimal digits; 42
\* gives 0000000000042 and the empty barcode thirteen zeros.
C20_ThirteenDigits ==
  (handler.pass # "none" /\ validate_ean13) =>
    \A i \in 1..Len(handler.calls) :
      handler.calls[i].ret.some =>
        /\ Emitted(i)
        /\ handler.calls[i].ean13.called
        /\ Len(EanField(i)) = 13
        /\ \A j \in 1..13 : IsDecimal(EanField(i)[j])
        /\ Field(i, COD_EAN) = <<"4", "2">> =>
             EanField(i) = <<"0", "0", "0", "0", "0", "0", "0", "0", "0", "0", "0", "4", "2">>
        /\ Field(i, COD_EAN) = <<>> =>
             EanField(i) = <<"0", "0", "0", "0", "0", "0", "0", "0", "0", "0", "0", "0", "0">>

(***************************************************************************)
(* Claims on a pass with validation off.                                   *)
(***************************************************************************)
\* C21: with validation off every row of a pass gives a line whose barcode
\* field is the normalized barcode as it is, no row is refused whatever the
\* length of its barcode, the collection is empty after the pass and the
\* log is left as it was.
C21_ValidationOff ==
  (handler.pass # "none" /\ ~validate_ean13) =>
    /\ Len(handler.calls) = PassLen
    /\ \A i \in 1..Len(handler.calls) :
         /\ ~handler.calls[i].ean13.called
         /\ Emitted(i)
         /\ EanField(i) = Field(i, COD_EAN)
         /\ handler.calls[i].added = <<>>
    /\ Len(handler.lines) = PassLen
    /\ ean13_oversized = <<>>
    /\ handler.flush = "none"
    /\ log_file = handler.prior.log_file

\* an export with validation off has written the rows with the 14-digit
\* and the 15-digit barcode
C21_Witness ==
  /\ handler.pass = "export" /\ ~validate_ean13
  /\ Len(handler.calls) = 4
  /\ Len(EanDigits(1)) = 14 /\ Len(EanDigits(3)) = 15
  /\ handler.calls[1].ret.some /\ handler.calls[3].ret.some
  /\ EanField(1) = <<"1", "2", "3", "4", "5", "6", "7", "8", "-", "9", "0", "1", "2", "3", "4">>
  /\ Len(handler.lines) = 4
  /\ ean13_oversized = <<>>

(***************************************************************************)
(* Claims on the lines of the log and of the exported file.                *)
(***************************************************************************)
\* the lines of a text that ends with a line break: what stands between
\* two line breaks that follow each other
LinesOf(text) ==
  LET Breaks == {j \in 1..Len(text) : IsLineBreak(text[j])}
      Nth(k) == CHOOSE j \in Breaks : Cardinality({b \in Breaks : b < j}) = k - 1
      Start(k) == IF k = 1 THEN 1 ELSE Nth(k - 1) + 1
  IN [k \in 1..Cardinality(Breaks) |-> SubSeq(text, Start(k), Nth(k) - 1)]

\* the lines of the block the pass added to the log, after its two headers
RecordLines ==
  LET Rest(lines) == SubSeq(lines, 3, Len(lines))
  IN Rest(LinesOf(LogAdded))

\* C22: every record written by a log flush is exactly one line of the
\* log, made of four fields with tabs between them: the internal code, the
\* barcode, the description with its line breaks turned into blanks, the
\* digit count; this whatever characters the three texts hold.  The block
\* ends with one blank line.
C22_OneLogLinePerRecord ==
  handler.flush = "written" =>
    /\ Len(RecordLines) = Len(ean13_oversized) + 1
    /\ RecordLines[Len(RecordLines)] = <<>>
    /\ \A k \in 1..Len(ean13_oversized) :
         Split(RecordLines[k], TAB) =
           <<ean13_oversized[k].COD_IN, ean13_oversized[k].COD_EAN,
             one_line(ean13_oversized[k].DES_PRODUTO),
             NatToStr(ean13_oversized[k].LEN)>>

\* the rows of the pass that gave a line
Accepted == {i \in 1..Len(handler.calls) : handler.calls[i].ret.some}

\* C23: in the exported file every accepted row is exactly one line, and
\* with the default base column and prefix that line is three fields with
\* "|" between them, the internal code, the barcode and the description,
\* whatever the cells, the labels and the format strings hold: the file has
\* as many lines as accepted rows and every line holds exactly two "|".
C23_OneFileLinePerRow ==
  (handler.pass = "export" /\ BASE_COL = DES_PRODUTO
     /\ MANDATORY_PREFIX = <<COD_INTERNO, COD_EAN>>) =>
    /\ Len(LinesOf(out_file)) = Cardinality(Accepted)
    /\ \A k \in 1..Len(LinesOf(out_file)) :
         /\ LinesOf(out_file)[k] = handler.lines[k]
         /\ Cardinality({j \in 1..Len(handler.lines[k]) : handler.lines[k][j] = "|"}) = 2

(***************************************************************************)
(* Claims on exportador_txt_gui_xls_ou_postgres_ini_merged_weighted2.py.   *)
(***************************************************************************)
\* C24: in the earlier program every frame a load stores has its column
\* names trimmed and in upper case, so that when the column list was filled
\* for the frame, the frame has the base column and every listed column
\* under the listed name, and a preview or export does not stop at the
\* base-column check.
C24_LoadedNormalized ==
  df.loaded =>
    /\ \A c \in 1..Len(df.columns) : df.columns[c] = Upper(Strip(df.columns[c]))
    /\ col_vars # <<>> =>
         /\ Contains(df.columns, BASE_COL)
         /\ \A i \in 1..Len(col_vars) : Contains(df.columns, col_vars[i].col)
         /\ handler.op \in {"on_preview", "on_save"} => ~Contains(handler.msgs, "Erro")

(***************************************************************************)
(* Claims on what a pass depends on and what it changes.                   *)
(***************************************************************************)
\* _build_line called on row i alone: no frame, an empty collection, no
\* pass, with the configuration and the column selection of the object
Alone(i) ==
  _build_line([Self EXCEPT !.df = NoDf, !.ean13_oversized = <<>>,
                           !.preview_txt = <<>>, !.out_file = <<>>, !.log_file = <<>>],
              Row(df, i))

\* C25: what _build_line gives for a row, the line or the refusal with the
\* record it adds, is what it gives for that row alone under the same
\* configuration and column selection: the other rows, the position of the
\* row, the records already collected and the kind of pass do not matter.
C25_RowAlone ==
  handler.pass # "none" =>
    \A i \in 1..Len(handler.calls) :
      LET Same(alone) ==
            /\ handler.calls[i].ret = alone.ret
            /\ handler.calls[i].added = alone.self.ean13_oversized
      IN Same(Alone(i))

\* an export that found a record of an earlier pass in the collection has
\* refused its first and third row and written the two others
C25_Witness ==
  /\ handler.pass = "export"
  /\ handler.prior.ean13_oversized # <<>>
  /\ Len(handler.calls) = 4
  /\ ~handler.calls[1].ret.some /\ Len(handler.calls[1].added) = 1
  /\ handler.calls[2].ret.some
  /\ ~handler.calls[3].ret.some /\ handler.calls[3].added[1].LEN = 15
  /\ handler.calls[4].ret.some

\* C26: a preview or an export leaves the frame, the include flags and the
\* labels, the four format strings, the validation flag, BASE_COL and
\* MANDATORY_PREFIX as they were; it changes at most the collection, the
\* log, and the preview text (a preview) or the output file (an export).
C26_PassFrame ==
  [][handler'.op \in {"on_preview", "on_save"} =>
       /\ UNCHANGED <<df, file_path, col_vars, label_vars, opening_var, closing_var,
                      pair_sep_var, label_sep_var, validate_ean13, BASE_COL,
                      MANDATORY_PREFIX>>
       /\ handler'.op = "on_preview" => UNCHANGED out_file
       /\ handler'.op = "on_save" => UNCHANGED preview_txt]_vars

\* an export that followed a preview has written the file, refilled the
\* collection and added a block to the log
C26_Witness ==
  /\ handler.op = "on_save" /\ handler.pass = "export"
  /\ preview_txt # <<>>
  /\ out_file # handler.prior.out_file
  /\ ean13_oversized # <<>>
  /\ log_file # handler.prior.log_file

(***************************************************************************)
(* Claims on the rows a pass goes through.                                 *)
(***************************************************************************)
\* C27: a preview calls _build_line on the first 10 rows of the frame and
\* on no other; the preview text is the lines of this pass and nothing of
\* the text before; the rows after the tenth give no line and no record,
\* and are not in the block the preview adds to the log.  An export calls
\* _build_line on every row.
C27_PreviewHead ==
  /\ handler.pass = "preview" =>
       /\ Len(handler.calls) = (IF Len(df.data) > 10 THEN 10 ELSE Len(df.data))
       /\ Len(handler.lines) <= 10
       /\ handler.lines = AcceptedFrom(1)
       /\ preview_txt = Join(handler.lines, NL)
       /\ ean13_oversized = RejectsFrom(1)
       /\ handler.flush = "written" =>
            \E now \in Clock : LogAdded = LogBlock(now, CTX_PREVIEW, RejectsFrom(1))
  /\ handler.pass = "export" => Len(handler.calls) = Len(df.data)

\* a preview of the twelve-row frame with validation on has replaced the
\* text of an earlier preview by nine lines and logged the one record of
\* row 7; row 11, which has 15 digits, is not recorded
C27_Witness ==
  /\ handler.op = "on_preview" /\ handler.pass = "preview"
  /\ Len(df.data) = 12
  /\ validate_ean13 /\ Len(EanDigits(11)) = 15
  /\ handler.prior.preview_txt # <<>>
  /\ preview_txt # handler.prior.preview_txt
  /\ Len(handler.calls) = 10
  /\ Len(handler.lines) = 9
  /\ Len(ean13_oversized) = 1 /\ ean13_oversized[1].LEN = 14
  /\ handler.flush = "written"

(***************************************************************************)
(* Claims on the column list.                                              *)
(***************************************************************************)
\* C28: in every state the include flags and the labels have the same
\* keys in the same order, so every listed column has a label.
C28_SameKeys ==
  /\ Len(col_vars) = Len(label_vars)
  /\ \A i \in 1..Len(col_vars) : col_vars[i].col = label_vars[i].col
  /\ \A i \in 1..Len(col_vars) : HasKey(label_vars, col_vars[i].col)

\* a load after the first step has listed the one column of the query
\* frame
C28_Witness ==
  /\ handler.op \in {"on_open_file", "on_select_sheet", "on_run_query"}
  /\ Len(col_vars) = 1 /\ Len(label_vars) = 1
  /\ col_vars[1].col = LayoutFull[5].name
  /\ df.columns = [c \in 1..Len(LayoutQuery) |-> Upper(LayoutQuery[c].name)]
  /\ ops >= 2

\* the handler that left this state is a load
Loaded == handler.op \in {"on_open_file", "on_select_sheet", "on_run_query"}

\* a frame is loaded and has no base column
NoBase(d) == d.loaded /\ ~Contains(d.columns, BASE_COL)

\* C29: a load of a frame without the base column is not undone: the new
\* frame is the current one and the column list is empty; the flags and
\* labels set before it are not brought back by the next load, which
\* lists its columns unticked with their derived labels.
C29_NoRollback ==
  Loaded =>
    /\ Contains(handler.msgs, "Coluna base ausente") =>
         /\ NoBase(df)
         /\ col_vars = <<>> /\ label_vars = <<>>
    /\ NoBase(handler.prior.df) =>
         /\ handler.prior.col_vars = <<>>
         /\ \A i \in 1..Len(col_vars) :
              /\ ~col_vars[i].val
              /\ label_vars[i].val = abbrev_label(col_vars[i].col)

\* a frame without the base column has been loaded over a list with a
\* ticked column and a typed label: the list is empty
C29_Witness ==
  /\ Loaded
  /\ Contains(handler.msgs, "Coluna base ausente")
  /\ \E i \in 1..Len(handler.prior.col_vars) :
       /\ handler.prior.col_vars[i].val
       /\ handler.prior.label_vars[i].val # abbrev_label(handler.prior.col_vars[i].col)
  /\ handler.prior.df.loaded /\ handler.prior.df # df
  /\ NoBase(df)
  /\ col_vars = <<>>

(***************************************************************************)
(* Claims on exportador_pipe_gui.py.                                       *)
(***************************************************************************)
\* C30: every line build_lines returns holds exactly two "|" and no
\* carriage return or line feed, whatever the three cells and the
\* additional text hold.
C30_PipeLine ==
  handler.op = "build_lines" =>
    \A r \in 1..Len(handler.ret) :
      /\ Cardinality({j \in 1..Len(handler.ret[r]) : handler.ret[r][j] = "|"}) = 2
      /\ \A j \in 1..Len(handler.ret[r]) : handler.ret[r][j] \notin {CR, LF}

====
